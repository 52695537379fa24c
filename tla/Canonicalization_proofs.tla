---------------------- MODULE Canonicalization_proofs ----------------------
(***************************************************************************)
(* Proofs about Canonicalization, for every set of claims, texts, clusters *)
(* and every order the database returns rows in.  They need that the       *)
(* operations on one analysis version do not overlap (Serial), so that a   *)
(* claim is in one cluster; the two about domains need NoUnknownAction.    *)
(*                                                                         *)
(* The argument: CanonInv says of the state after a run that the run, done *)
(* again on its own output with the same readings, writes it again         *)
(* (LastRun).  From the choice of primaries (PrimaryFacts) and the kinds   *)
(* of attachment (KindFacts) the properties follow for that one run.       *)
(***************************************************************************)
EXTENDS Canonicalization, ClaimClusters_proofs, FiniteInduction

\* The clusters of a run are rows of the table, and their members claims of it.
LEMMA ListedIn ==
    ASSUME TypeOK
    PROVE  /\ Listed \subseteq Live /\ Live \subseteq Clusters /\ None \notin Live
           /\ \A k : ClaimsOf(k) \subseteq Claims
  BY NoneAssumption DEF TypeOK, Listed, ClaimsOf, RowsOf, RowId

\* An order of a set is a sequence of exactly its elements.
LEMMA OrderRange ==
    ASSUME NEW S, IsFiniteSet(S), NEW order \in SetToSeqs(S)
    PROVE  /\ Range(order) = S
           /\ DOMAIN order = 1..Cardinality(S) /\ Cardinality(S) \in Nat
           /\ \A i \in DOMAIN order : order[i] \in S
  <1> DEFINE n == Cardinality(S)
  <1>1. n \in Nat
    BY FS_CardinalityType
  <1>2. order \in [1..n -> S] /\ \A i, j \in 1..n : i # j => order[i] # order[j]
    BY DEF SetToSeqs
  <1>3. order \in Injection(1..n, S)
    BY <1>2 DEF Injection, IsInjective
  <1>4. Cardinality(1..n) = n /\ IsFiniteSet(1..n)
    BY <1>1, FS_Interval
  <1>5. order \in Surjection(1..n, S)
    BY <1>3, <1>4, FS_Injection
  <1> QED BY <1>1, <1>2, <1>5 DEF Surjection, Range

\* A merged field is empty or the value of one of the members.
LEMMA FirstOfFilled ==
    ASSUME NEW n \in Nat, NEW members, DOMAIN members = 1..n, NEW field
    PROVE  \/ Sem(facts)!FirstOf(members, field) = Sem(facts)!NoSemantics[field]
           \/ \E i \in 1..n : Sem(facts)!FirstOf(members, field) = members[i][field]
  <1> DEFINE filled  == {i \in DOMAIN members : members[i][field] # None}
             current == {i \in filled : members[i].authority # "superseded"}
             chosen  == IF current # {} THEN current ELSE filled
  <1>1. CASE filled = {}
    BY <1>1 DEF Sem!FirstOf
  <1>2. CASE filled # {}
    <2>1. chosen \in SUBSET Nat /\ chosen # {} /\ chosen \subseteq 1..n
      BY <1>2
    <2>2. Sem(facts)!FirstOf(members, field) = members[Min(chosen)][field]
      BY <1>2 DEF Sem!FirstOf, Sem!Min, Min
    <2> HIDE DEF chosen
    <2>3. \E m \in chosen : \A i \in chosen : m <= i
      BY <2>1, LeastNatural
    <2>4. Min(chosen) \in chosen
      BY <2>3 DEF Min
    <2> QED BY <2>1, <2>2, <2>4
  <1> QED BY <1>1, <1>2

\* No claim gives the family "unknown", nor does a label.
LEMMA FamilyOfClaim ==
    ASSUME NoUnknownAction, facts \in Texts, NEW c \in Claims
    PROVE  Sem(facts)!ActionFamily(facts[c]) # "unknown"
  <1> DEFINE f == facts[c]
             hits == {i \in DOMAIN Sem(facts)!FamilyRules :
                         Sem(facts)!Has(Sem(facts)!AllWords(f), Sem(facts)!FamilyRules[i][1])}
  <1>1. CASE hits = {}
    BY <1>1, RunsAssumption DEF Sem!ActionFamily, NoUnknownAction
  <1>2. CASE hits # {}
    <2>1. DOMAIN Sem(facts)!FamilyRules = 1..4
      BY DEF Sem!FamilyRules
    <2>2. PICK m \in hits : \A i \in hits : m <= i
      BY <2>1, <1>2, LeastNatural
    <2>3. Sem(facts)!Min(hits) \in 1..4
      BY <2>1, <2>2 DEF Sem!Min
    <2>4. Sem(facts)!ActionFamily(f) = Sem(facts)!FamilyRules[Sem(facts)!Min(hits)][2]
      BY <1>2 DEF Sem!ActionFamily
    <2>5. \A i \in 1..4 : Sem(facts)!FamilyRules[i][2] # "unknown"
      <3>1. /\ Sem(facts)!FamilyRules[1][2] = "delete"
            /\ Sem(facts)!FamilyRules[2][2] = "expire"
            /\ Sem(facts)!FamilyRules[3][2] = "approve"
            /\ Sem(facts)!FamilyRules[4][2] = "create"
        BY DEF Sem!FamilyRules
      <3> QED BY <3>1
    <2> QED BY <2>3, <2>4, <2>5
  <1> QED BY <1>1, <1>2

\* So the merged semantics of a cluster does not have that family either.
LEMMA ClusterFamily ==
    ASSUME NoUnknownAction, facts \in Texts, NEW cs \in SUBSET Claims, NEW order \in SetToSeqs(cs)
    PROVE  Sem(facts)!ClusterSemantics(order).family # "unknown"
  <1>1. IsFiniteSet(cs)
    BY TablesAreFinite, FS_Subset
  <1> DEFINE n == Cardinality(cs)
             members == [i \in DOMAIN order |-> Sem(facts)!Semantics(facts[order[i]])]
  <1>2. n \in Nat /\ DOMAIN members = 1..n /\ \A i \in 1..n : order[i] \in Claims
    BY <1>1, OrderRange
  <1>3. \A i \in 1..n : members[i]["family"] # "unknown"
    BY <1>2, FamilyOfClaim DEF Sem!Semantics
  <1>4. Sem(facts)!NoSemantics["family"] # "unknown"
    BY RunsAssumption DEF Sem!NoSemantics
  <1>5. CASE order = <<>>
    BY <1>4, <1>5 DEF Sem!ClusterSemantics
  <1>6. CASE order # <<>>
    <2>1. Sem(facts)!MergeSemantics(members).family = Sem(facts)!FirstOf(members, "family")
      BY DEF Sem!MergeSemantics, Sem!NoSemantics
    <2>2. Sem(facts)!ClusterSemantics(order) = Sem(facts)!MergeSemantics(members)
      BY <1>6 DEF Sem!ClusterSemantics
    <2> HIDE DEF members, n
    <2>3. Sem(facts)!FirstOf(members, "family") # "unknown"
      BY <1>2, <1>3, <1>4, FirstOfFilled
    <2> QED BY <2>1, <2>2, <2>3
  <1> QED BY <1>5, <1>6

\* A cluster of nothing but outdated claims is superseded, ...
LEMMA OutdatedRole ==
    ASSUME NEW cs \in SUBSET Claims, NEW order \in SetToSeqs(cs), cs # {},
           \A c \in cs : Outdated(c)
    PROVE  Sem(facts)!AssignRole(order) = "superseded"
  <1>1. IsFiniteSet(cs) /\ cs = Range(order)
    BY TablesAreFinite, FS_Subset, OrderRange
  <1>2. Sem(facts)!Range(order) = cs
    BY <1>1 DEF Range, Sem!Range
  <1>3. {c \in cs : Sem(facts)!AuthorityStatus(facts[c]) = "superseded"} = cs
    BY DEF Outdated
  <1>4. Sem(facts)!Cardinality(cs) = Cardinality(cs) /\ Cardinality(cs) \in Nat
    BY <1>1, FS_CardinalityType DEF Cardinality, Sem!Cardinality
  <1>5. Sem(facts)!IsOutdated(cs)
    BY <1>3, <1>4 DEF Sem!IsOutdated
  <1> QED BY <1>2, <1>5 DEF Sem!AssignRole

\* ... and only such a cluster has outdated semantics.
LEMMA OutdatedSemantics ==
    ASSUME NEW cs \in SUBSET Claims, NEW order \in SetToSeqs(cs),
           Sem(facts)!ClusterSemantics(order).authority = "superseded"
    PROVE  cs # {} /\ \A c \in cs : Outdated(c)
  <1> DEFINE members == [i \in DOMAIN order |-> Sem(facts)!Semantics(facts[order[i]])]
  <1>1. order # <<>>
    BY RunsAssumption DEF Sem!ClusterSemantics, Sem!NoSemantics, Kinds
  <1>2. IsFiniteSet(cs)
    BY TablesAreFinite, FS_Subset
  <1>3. cs = Range(order) /\ \A i \in DOMAIN order : order[i] \in cs
    BY <1>2, OrderRange
  <1>4. Sem(facts)!MergeSemantics(members).authority = "superseded"
    BY <1>1 DEF Sem!ClusterSemantics
  <1>5. ~ \E i \in DOMAIN members : members[i].authority = "current"
    <2> HIDE DEF members
    <2> QED BY <1>4 DEF Sem!MergeSemantics, Sem!NoSemantics
  <1>6. \A i \in DOMAIN order : members[i].authority = Sem(facts)!AuthorityStatus(facts[order[i]])
    BY DEF Sem!Semantics
  <1>7. \A i \in DOMAIN order : Outdated(order[i])
    BY <1>5, <1>6 DEF Sem!AuthorityStatus, Outdated
  <1>8. cs # {}
    <2>1. DOMAIN order = 1..Cardinality(cs) /\ order \in [1..Cardinality(cs) -> cs]
      BY DEF SetToSeqs
    <2>2. CASE cs = {}
      <3>1. Cardinality(cs) = 0
        BY <2>2, FS_EmptySet
      <3>2. order = <<>>
        BY <2>1, <3>1
      <3> QED BY <3>2, <1>1
    <2> QED BY <2>2
  <1> QED BY <1>3, <1>7, <1>8 DEF Range

\* A run assigns one of the roles.
LEMMA RoleType ==
    ASSUME NEW order
    PROVE  Sem(facts)!AssignRole(order) \in Sem(facts)!ClusterRole
  BY DEF Sem!AssignRole, Sem!ClusterRole

\* What a run makes of a cluster.
LEMMA ReadingOf ==
    ASSUME TypeOK, facts \in Texts, NEW k \in Listed, NEW r \in Readings(k)
    PROVE  /\ r.role \in Sem(facts)!ClusterRole
           /\ NoUnknownAction => r.sem.family # "unknown"
           /\ r.sem.authority = "superseded" => r.role \in Secondary
           /\ ClaimsOf(k) # {} /\ (\A c \in ClaimsOf(k) : Outdated(c)) => r.role \in Secondary
  <1>1. PICK order \in SetToSeqs(ClaimsOf(k)) :
            r = [role |-> Sem(facts)!AssignRole(order), sem |-> Prepared(k, order)]
    BY DEF Readings
  <1>2. ClaimsOf(k) \in SUBSET Claims
    BY ListedIn
  <1> DEFINE sem == Sem(facts)!ClusterSemantics(order)
  <1>3. NoUnknownAction => sem.family # "unknown"
    BY <1>2, ClusterFamily
  <1>4. r.sem.family = (IF sem.family # None THEN sem.family ELSE FamilyFromLabel(notes[k].label))
    <2>1. DOMAIN sem = {"family", "actor", "threshold", "state", "timing", "exception", "authority"}
      BY DEF Sem!ClusterSemantics, Sem!MergeSemantics, Sem!NoSemantics
    <2> HIDE DEF sem
    <2> QED BY <1>1, <2>1 DEF Prepared, sem
  <1>5. NoUnknownAction => r.sem.family # "unknown"
    BY <1>3, <1>4, RunsAssumption DEF FamilyFromLabel
  <1>6. r.sem.authority = sem.authority
    <2>1. DOMAIN sem = {"family", "actor", "threshold", "state", "timing", "exception", "authority"}
      BY DEF Sem!ClusterSemantics, Sem!MergeSemantics, Sem!NoSemantics
    <2> HIDE DEF sem
    <2> QED BY <1>1, <2>1 DEF Prepared, sem
  <1>7. ClaimsOf(k) # {} /\ (\A c \in ClaimsOf(k) : Outdated(c)) => r.role = "superseded"
    BY <1>1, <1>2, OutdatedRole
  <1>8. sem.authority = "superseded" => r.role = "superseded"
    BY <1>2, <1>7, OutdatedSemantics
  <1>9. r.role \in Sem(facts)!ClusterRole
    BY <1>1, RoleType
  <1> QED BY <1>5, <1>6, <1>7, <1>8, <1>9 DEF Secondary

\* The score of a cluster is a number.
LEMMA ScoreType ==
    ASSUME facts \in Texts, NEW cs \in SUBSET Claims, NEW sem
    PROVE  Sem(facts)!ScoreAuthority(cs, sem) \in Int
  <1> DEFINE total == Sem(facts)!FoldSet(LAMBDA c, sum : sum + facts[c].confidence, 0, cs)
             iter == CHOOSE g : g = [s \in SUBSET cs |->
                        IF s = {} THEN 0
                        ELSE g[s \ {CHOOSE x \in s : TRUE}] + facts[CHOOSE x \in s : TRUE].confidence]
  <1>1. total = iter[cs]
    BY DEF Sem!FoldSet, Sem!MapThenFoldSet
  <1>2. IsFiniteSet(cs)
    BY TablesAreFinite, FS_Subset
  <1> DEFINE w == [c \in cs |-> facts[c].confidence]
  <1>3. w \in [cs -> Int]
    BY TextsAssumption
  <1>4. PICK g : SumsOf(g, cs, w)
    BY <1>2, <1>3, SumsExist
  <1>5. SumsOf(iter, cs, w)
    <2>1. ASSUME NEW h, NEW s \in SUBSET cs
          PROVE  (IF s = {} THEN 0 ELSE h[s \ {Picked(s)}] + w[Picked(s)])
                   = (IF s = {} THEN 0
                      ELSE h[s \ {CHOOSE x \in s : TRUE}] + facts[CHOOSE x \in s : TRUE].confidence)
      <3>1. s # {} => Picked(s) \in cs
        BY DEF Picked
      <3> QED BY <3>1 DEF Picked
    <2> DEFINE byW(h, s) == IF s = {} THEN 0 ELSE h[s \ {Picked(s)}] + w[Picked(s)]
               byC(h, s) == IF s = {} THEN 0
                            ELSE h[s \ {CHOOSE x \in s : TRUE}] + facts[CHOOSE x \in s : TRUE].confidence
    <2>2. \A h : \A s \in SUBSET cs : byW(h, s) = byC(h, s)
      BY <2>1
    <2>3. g = [s \in SUBSET cs |-> byW(g, s)]
      BY <1>4 DEF SumsOf
    <2>4. \E h : h = [s \in SUBSET cs |-> byC(h, s)]
      <3> HIDE DEF byW, byC
      <3>1. [s \in SUBSET cs |-> byW(g, s)] = [s \in SUBSET cs |-> byC(g, s)]
        BY <2>2
      <3> QED BY <2>3, <3>1
    <2>5. iter = [s \in SUBSET cs |-> byC(iter, s)]
      BY <2>4
    <2>6. iter = [s \in SUBSET cs |-> byW(iter, s)]
      <3> HIDE DEF byW, byC, iter
      <3>1. [s \in SUBSET cs |-> byW(iter, s)] = [s \in SUBSET cs |-> byC(iter, s)]
        BY <2>2
      <3> QED BY <2>5, <3>1
    <2> QED BY <2>6 DEF SumsOf
  <1> HIDE DEF iter
  <1>6. total \in Int
    <2> HIDE DEF total, w
    <2>1. \A s \in SUBSET cs : iter[s] \in Int
      BY <1>2, <1>3, <1>5, SumsAreNumbers
    <2> QED BY <1>1, <2>1
  <1>7. Sem(facts)!Cardinality(cs) = Cardinality(cs) /\ Cardinality(cs) \in Nat
    BY <1>2, FS_CardinalityType DEF Cardinality, Sem!Cardinality
  <1>8. cs # {} => Cardinality(cs) > 0
    BY <1>2, <1>7, FS_EmptySet
  <1> DEFINE size == IF cs = {} THEN 1 ELSE Sem(facts)!Cardinality(cs)
  <1>9. (60 * total) \div size \in Int
    <2>1. size \in Nat /\ size > 0
      BY <1>7, <1>8
    <2> HIDE DEF total, size
    <2>2. \A a \in Int, n \in Nat : n > 0 => a \div n \in Int
      OBVIOUS
    <2>3. 60 * total \in Int
      BY <1>6
    <2> QED BY <2>1, <2>2, <2>3
  <1> DEFINE p1 == IF "implementation" \in Sem(facts)!RolesOf(cs) THEN 6 ELSE 0
             p2 == IF "verification" \in Sem(facts)!RolesOf(cs) THEN 4 ELSE 0
             p3 == IF "product_intent" \in Sem(facts)!RolesOf(cs) THEN 4 ELSE 0
             p4 == IF "configuration" \in Sem(facts)!RolesOf(cs) THEN 3 ELSE 0
             p5 == IF sem.authority = "current" THEN 4 ELSE 0
             p6 == IF sem.authority = "superseded" THEN 10 ELSE 0
  <1>10. 3000 * (p1 + p2 + p3 + p4 + p5 - p6) \in Int
    <2>1. p1 \in Int /\ p2 \in Int /\ p3 \in Int /\ p4 \in Int /\ p5 \in Int /\ p6 \in Int
      OBVIOUS
    <2> HIDE DEF p1, p2, p3, p4, p5, p6
    <2> QED BY <2>1
  <1>11. Sem(facts)!ScoreAuthority(cs, sem)
           = 3000 * (p1 + p2 + p3 + p4 + p5 - p6) + (60 * total) \div size
    BY DEF Sem!ScoreAuthority
  <1> HIDE DEF p1, p2, p3, p4, p5, p6, total, size
  <1> QED BY <1>9, <1>10, <1>11

-----------------------------------------------------------------------------

\* A note has its columns, and an attached cluster says to what and how.
NoteOK(note) ==
    /\ note = [label |-> note.label, role |-> note.role, sem |-> note.sem,
               attachedTo |-> note.attachedTo, kind |-> note.kind,
               attached |-> note.attached, folded |-> note.folded]
    /\ note.attached = [i \in Kinds |-> note.attached[i]]
    /\ note.folded = [i \in Kinds |-> note.folded[i]]
    /\ note.role \in Sem(facts)!ClusterRole
    /\ note.attachedTo \in Clusters \cup {None}
    /\ note.attachedTo # None => note.kind \in Kinds

NotesOK == notes = [k \in Live |-> notes[k]] /\ \A k \in Live : NoteOK(notes[k])

\* Conflicts are between two claims, counted at most once per run.
ConflictsOK ==
    /\ runs \in 0..MaxRuns
    /\ \A row \in DOMAIN conflicts : row[1] # row[2] /\ conflicts[row] \in 1..runs

\* As long as the clusters are those of the last run, the notes are what it
\* wrote, and assigning to them what they say leads to the same run again: the
\* run is judged by its output, without what was there before it.
LastRun ==
    result # None =>
        \E ns \in Assignments : \E primaries \in PrimaryChoices(ns) : \E after :
            /\ after = AttachAll(ns, primaries) /\ notes = after
            /\ result = [emitted |-> Emitted(after), primaries |-> primaries,
                         sems |-> [k \in Listed |-> after[k].sem]]

CanonInv ==
    /\ TypeOK /\ OneClusterPerClaim
    /\ facts \in Texts /\ NotesOK /\ ConflictsOK /\ LastRun

\* Pass 1 writes the role and the semantics of the clusters it lists.
LEMMA AssignmentFacts ==
    ASSUME TypeOK, facts \in Texts, NotesOK, NEW ns \in Assignments
    PROVE  /\ ns = [k \in Live |-> ns[k]]
           /\ \A k \in Listed :
                 /\ NoteOK(ns[k])
                 /\ [role |-> ns[k].role, sem |-> ns[k].sem] \in Readings(k)
                 /\ ns[k] = [notes[k] EXCEPT !.role = ns[k].role, !.sem = ns[k].sem]
           /\ \A k \in Live \ Listed : ns[k] = notes[k]
  <1> DEFINE readings == [k \in Listed |-> Readings(k)]
  <1>1. PICK r \in [Listed -> UNION Range(readings)] :
            ns = Assigned(r) /\ \A k \in Listed : r[k] \in readings[k]
    BY DEF Assignments
  <1>2. DOMAIN notes = Live /\ Listed \subseteq Live
    BY DEF NotesOK, Listed
  <1>3. ns = [k \in Live |-> ns[k]] /\ \A k \in Live \ Listed : ns[k] = notes[k]
    BY <1>1, <1>2 DEF Assigned
  <1>4. ASSUME NEW k \in Listed
        PROVE  /\ NoteOK(ns[k])
               /\ [role |-> ns[k].role, sem |-> ns[k].sem] \in Readings(k)
               /\ ns[k] = [notes[k] EXCEPT !.role = ns[k].role, !.sem = ns[k].sem]
    <2>1. ns[k] = [notes[k] EXCEPT !.role = r[k].role, !.sem = r[k].sem]
      BY <1>1, <1>2 DEF Assigned
    <2>2. r[k] \in Readings(k)
      BY <1>1
    <2>3. r[k] = [role |-> r[k].role, sem |-> r[k].sem]
      BY <2>2 DEF Readings
    <2>4. r[k].role \in Sem(facts)!ClusterRole
      BY <2>2, ReadingOf
    <2> DEFINE n == notes[k]
    <2>5. NoteOK(n)
      BY <1>2 DEF NotesOK
    <2>6. ns[k] = [label |-> n.label, role |-> r[k].role, sem |-> r[k].sem,
                   attachedTo |-> n.attachedTo, kind |-> n.kind,
                   attached |-> n.attached, folded |-> n.folded]
      <3> HIDE DEF n
      <3>1. n = [label |-> n.label, role |-> n.role, sem |-> n.sem,
                 attachedTo |-> n.attachedTo, kind |-> n.kind,
                 attached |-> n.attached, folded |-> n.folded]
        BY <2>5 DEF NoteOK
      <3>2. ns[k] = [n EXCEPT !.role = r[k].role, !.sem = r[k].sem]
        BY <2>1 DEF n
      <3> QED BY <3>1, <3>2
    <2>7. ns[k].role = r[k].role /\ ns[k].sem = r[k].sem
      BY <2>6
    <2>8. NoteOK(ns[k])
      <3> HIDE DEF n
      <3> QED BY <2>4, <2>5, <2>6 DEF NoteOK
    <2> QED BY <2>1, <2>2, <2>3, <2>7, <2>8
  <1> QED BY <1>3, <1>4

\* What the reading of a cluster implies for its note.
LEMMA AssignedReading ==
    ASSUME TypeOK, facts \in Texts, NotesOK, NEW ns \in Assignments, NEW k \in Listed
    PROVE  /\ ns[k].role \in Sem(facts)!ClusterRole
           /\ NoUnknownAction => ns[k].sem.family # "unknown"
           /\ ns[k].sem.authority = "superseded" => ns[k].role \in Secondary
           /\ ClaimsOf(k) # {} /\ (\A c \in ClaimsOf(k) : Outdated(c)) => ns[k].role \in Secondary
  <1> DEFINE r == [role |-> ns[k].role, sem |-> ns[k].sem]
  <1>1. r \in Readings(k)
    BY AssignmentFacts
  <1>2. r.role = ns[k].role /\ r.sem = ns[k].sem
    OBVIOUS
  <1> HIDE DEF r
  <1>3. /\ r.role \in Sem(facts)!ClusterRole
        /\ NoUnknownAction => r.sem.family # "unknown"
        /\ r.sem.authority = "superseded" => r.role \in Secondary
        /\ ClaimsOf(k) # {} /\ (\A c \in ClaimsOf(k) : Outdated(c)) => r.role \in Secondary
    BY <1>1, ReadingOf
  <1> QED BY <1>2, <1>3

\* Clusters of one domain have one family.
LEMMA OneFamily ==
    ASSUME NoUnknownAction, TypeOK, facts \in Texts, NotesOK, NEW ns \in Assignments,
           NEW k \in Listed, NEW l \in Listed, SameDomain(ns, k, l)
    PROVE  ns[k].sem.family = ns[l].sem.family
  <1>1. ns[k].sem.family # "unknown" /\ ns[l].sem.family # "unknown"
    BY AssignedReading
  <1> QED BY <1>1 DEF SameDomain, Domain

\* Each domain with a cluster that can lead it has exactly one primary, which
\* is canonical if one of them is.
LEMMA PrimaryFacts ==
    ASSUME TypeOK, facts \in Texts, NotesOK, NEW ns \in Assignments,
           NEW P \in PrimaryChoices(ns)
    PROVE  /\ P \subseteq Able(ns) /\ Able(ns) \subseteq Listed
           /\ \A p, q \in P : SameDomain(ns, p, q) => p = q
           /\ \A k \in Able(ns) : \E p \in P :
                 /\ SameDomain(ns, k, p)
                 /\ ns[k].role = "canonical_rule" => ns[p].role = "canonical_rule"
  <1> DEFINE A == Able(ns)
             key == [k \in A |-> RankKey(ns, k)]
             best == {k \in A : \A l \in A : SameDomain(ns, k, l) => ~Below(key[k], key[l])}
             first == [k \in A |-> IF ns[k].role = "canonical_rule" THEN 1 ELSE 0]
             score == [k \in A |-> Sem(facts)!ScoreAuthority(ClaimsOf(k), ns[k].sem)]
             above == [k \in A |-> {l \in A : SameDomain(ns, k, l) /\ Below(key[k], key[l])}]
  <1>1. A \subseteq Listed /\ IsFiniteSet(A)
    <2>1. A \subseteq Listed /\ A \subseteq Clusters
      BY ListedIn DEF Able
    <2> QED BY <2>1, TablesAreFinite, FS_Subset
  <1>2. P \subseteq best /\ \A k \in best : Cardinality({p \in P : SameDomain(ns, k, p)}) = 1
    BY DEF PrimaryChoices
  <1>3. \A k \in A : key[k][1] = first[k] /\ key[k][2] = score[k]
    BY DEF RankKey
  <1>4. \A k \in A : first[k] \in Int /\ score[k] \in Int
    <2> TAKE k \in A
    <2>1. ClaimsOf(k) \in SUBSET Claims
      BY ListedIn
    <2>2. Sem(facts)!ScoreAuthority(ClaimsOf(k), ns[k].sem) \in Int
      BY <2>1, ScoreType
    <2> QED BY <2>2
  <1>5. \A k, l \in A : Below(key[k], key[l])
            <=> first[k] < first[l] \/ (first[k] = first[l] /\ score[k] < score[l])
    BY <1>3 DEF Below
  <1>6. above \in [A -> SUBSET A]
    OBVIOUS
  <1>7. \A k \in A : k \notin above[k]
    <2> HIDE DEF A, key, first, score
    <2> QED BY <1>4, <1>5
  <1>8. \A k, l, m \in A : l \in above[k] /\ m \in above[l] => m \in above[k]
    <2> HIDE DEF A, key, first, score
    <2>1. \A k, l, m \in A : SameDomain(ns, k, l) /\ SameDomain(ns, l, m) => SameDomain(ns, k, m)
      BY DEF SameDomain
    <2>2. \A k, l, m \in A : Below(key[k], key[l]) /\ Below(key[l], key[m]) => Below(key[k], key[m])
      BY <1>4, <1>5
    <2> QED BY <2>1, <2>2
  <1>9. ASSUME NEW k \in best, NEW l \in best, SameDomain(ns, k, l)
        PROVE  ~ (first[k] < first[l])
    BY <1>5, <1>9
  <1>10. \A k \in best : \E p \in P : {q \in P : SameDomain(ns, k, q)} = {p}
    <2> TAKE k \in best
    <2> DEFINE ps == {q \in P : SameDomain(ns, k, q)}
    <2>1. IsFiniteSet(ps) /\ Cardinality(ps) = 1
      <3>1. ps \subseteq A
        BY <1>2
      <3>2. Cardinality(ps) = 1
        BY <1>2
      <3> HIDE DEF ps, A
      <3> QED BY <3>1, <3>2, <1>1, FS_Subset
    <2>2. \E p : ps = {p}
      <3> HIDE DEF ps
      <3> QED BY <2>1, FS_Singleton
    <2> QED BY <2>2
  <1>11. \A p, q \in P : SameDomain(ns, p, q) => p = q
    <2> TAKE p, q \in P
    <2> HAVE SameDomain(ns, p, q)
    <2>1. PICK r \in P : {x \in P : SameDomain(ns, p, x)} = {r}
      BY <1>2, <1>10
    <2>2. SameDomain(ns, p, p)
      BY DEF SameDomain
    <2> QED BY <2>1, <2>2
  <1>12. ASSUME NEW k \in A
         PROVE  \E p \in P : /\ SameDomain(ns, k, p)
                             /\ ns[k].role = "canonical_rule" => ns[p].role = "canonical_rule"
    <2> DEFINE T == {l \in A : SameDomain(ns, k, l) /\ first[l] >= first[k]}
    <2>1. k \in T /\ T \in SUBSET A
      BY <1>4 DEF SameDomain
    <2>2. PICK m \in T : above[m] \cap T = {}
      <3> HIDE DEF A, above, T
      <3> QED BY <1>1, <1>6, <1>7, <1>8, <2>1, FiniteMaximal
    <2>3. m \in best
      <3>1. ASSUME NEW l \in A, SameDomain(ns, m, l), Below(key[m], key[l])
            PROVE  FALSE
        <4>1. SameDomain(ns, k, l)
          BY <2>2, <3>1 DEF SameDomain
        <4>2. first[l] >= first[m] /\ first[m] >= first[k]
          <5> HIDE DEF key, first, score, A
          <5> QED BY <2>2, <3>1, <1>4, <1>5
        <4>3. first[l] >= first[k]
          <5>1. first[k] \in Int /\ first[m] \in Int /\ first[l] \in Int
            BY <1>4, <2>2
          <5> HIDE DEF first
          <5> QED BY <4>2, <5>1
        <4> QED BY <2>2, <3>1, <4>1, <4>3
      <3> QED BY <2>2, <3>1
    <2>4. PICK p \in P : {q \in P : SameDomain(ns, m, q)} = {p}
      BY <1>10, <2>3
    <2>5. SameDomain(ns, m, p) /\ SameDomain(ns, k, p)
      <3>1. SameDomain(ns, m, p)
        BY <2>4
      <3> QED BY <2>2, <3>1 DEF SameDomain
    <2>6. p \in best /\ SameDomain(ns, p, m)
      BY <1>2, <2>5 DEF SameDomain
    <2>7. ~ (first[p] < first[m])
      BY <1>9, <2>3, <2>6
    <2>8. first[p] >= first[k]
      <3>1. first[k] \in Int /\ first[m] \in Int /\ first[p] \in Int /\ first[m] >= first[k]
        BY <1>4, <2>2, <2>6
      <3> HIDE DEF first
      <3> QED BY <2>7, <3>1
    <2>9. ns[k].role = "canonical_rule" => ns[p].role = "canonical_rule"
      BY <2>8, <2>6
    <2> QED BY <2>5, <2>9
  <1> QED BY <1>1, <1>2, <1>11, <1>12

\* The primary of a cluster that leads nothing is the one of its domain.
LEMMA PrimaryOfFacts ==
    ASSUME TypeOK, facts \in Texts, NotesOK, NEW ns \in Assignments,
           NEW P \in PrimaryChoices(ns), NEW k \in Listed
    PROVE  /\ k \in P => PrimaryOf(ns, P, k) = None
           /\ PrimaryOf(ns, P, k) # None =>
                 k \notin P /\ PrimaryOf(ns, P, k) \in P /\ SameDomain(ns, k, PrimaryOf(ns, P, k))
           /\ \A p \in P : k \notin P /\ SameDomain(ns, k, p) => PrimaryOf(ns, P, k) = p
  <1> DEFINE found == {p \in P \ {k} : k \notin P /\ SameDomain(ns, k, p)}
  <1>1. P \subseteq Listed /\ \A p, q \in P : SameDomain(ns, p, q) => p = q
    BY PrimaryFacts
  <1>2. None \notin P
    BY <1>1, ListedIn
  <1>3. \A p \in P : k \notin P /\ SameDomain(ns, k, p) => found = {p}
    <2> TAKE p \in P
    <2> HAVE k \notin P /\ SameDomain(ns, k, p)
    <2>1. \A q \in P : SameDomain(ns, k, q) => q = p
      BY <1>1 DEF SameDomain
    <2> QED BY <2>1
  <1>4. found # {} => PrimaryOf(ns, P, k) \in found
    BY DEF PrimaryOf
  <1>5. found = {} => PrimaryOf(ns, P, k) = None
    BY DEF PrimaryOf
  <1>6. \A p \in P : k \notin P /\ SameDomain(ns, k, p) => PrimaryOf(ns, P, k) = p
    BY <1>3, <1>4
  <1>7. PrimaryOf(ns, P, k) # None =>
            k \notin P /\ PrimaryOf(ns, P, k) \in P /\ SameDomain(ns, k, PrimaryOf(ns, P, k))
    BY <1>4, <1>5
  <1>8. k \in P => found = {}
    OBVIOUS
  <1> QED BY <1>5, <1>6, <1>7, <1>8

\* A run attaches clusters to primaries only, ...
LEMMA KindFacts ==
    ASSUME TypeOK, facts \in Texts, NotesOK, NEW ns \in Assignments,
           NEW P \in PrimaryChoices(ns), NEW k \in Listed
    PROVE  /\ KindOf(ns, P, k) \in Kinds \cup {None}
           /\ KindOf(ns, P, k) # None => PrimaryOf(ns, P, k) # None
  <1>1. \A p : Attachment(ns[k], ns[p]) \in Kinds \cup {None}
    BY DEF Attachment, Kinds
  <1> QED BY <1>1 DEF KindOf

\* ... and every other cluster of a domain with a primary, unless it is a detail
\* of the implementation.
LEMMA DomainAttached ==
    ASSUME NoUnknownAction, TypeOK, facts \in Texts, NotesOK, NEW ns \in Assignments,
           NEW P \in PrimaryChoices(ns), NEW k \in Listed, NEW p \in P,
           k # p, SameDomain(ns, k, p), ns[k].role # "implementation_detail"
    PROVE  KindOf(ns, P, k) # None /\ PrimaryOf(ns, P, k) = p
  <1>1. P \subseteq Listed /\ \A q, r \in P : SameDomain(ns, q, r) => q = r
    BY PrimaryFacts
  <1>2. k \notin P
    BY <1>1
  <1>3. PrimaryOf(ns, P, k) = p /\ p # None
    BY <1>1, <1>2, PrimaryOfFacts, ListedIn
  <1>4. ns[k].sem.family = ns[p].sem.family
    BY <1>1, OneFamily
  <1>5. Attachment(ns[k], ns[p]) # None
    BY <1>4, RunsAssumption DEF Attachment, Kinds
  <1> QED BY <1>3, <1>5 DEF KindOf

\* The clusters that join p, by kind, and the claims p takes over from them.
Joining(ns, P, p) ==
    [i \in Kinds |-> {k \in Listed : KindOf(ns, P, k) = i /\ SameDomain(ns, k, p)}]

\* What attaching writes.
LEMMA AttachAllIs ==
    ASSUME TypeOK, NEW P, P \subseteq Listed, NEW ns, DOMAIN ns = Live
    PROVE  AttachAll(ns, P) =
               [k \in Live |->
                   IF k \in P THEN Leading(ns[k], k, Joining(ns, P, k))
                   ELSE IF k \notin Listed \/ KindOf(ns, P, k) = None THEN ns[k]
                   ELSE Attached(ns[k], PrimaryOf(ns, P, k), KindOf(ns, P, k))]
  <1> DEFINE kind == [k \in Listed |-> KindOf(ns, P, k)]
             joining == [p \in P |->
                            [i \in Kinds |-> {k \in Listed : kind[k] = i /\ SameDomain(ns, k, p)}]]
             read == [k \in Live |->
                        IF k \in P THEN Leading(ns[k], k, joining[k])
                        ELSE IF k \notin Listed \/ kind[k] = None THEN ns[k]
                        ELSE Attached(ns[k], PrimaryOf(ns, P, k), kind[k])]
             is == [k \in Live |->
                        IF k \in P THEN Leading(ns[k], k, Joining(ns, P, k))
                        ELSE IF k \notin Listed \/ KindOf(ns, P, k) = None THEN ns[k]
                        ELSE Attached(ns[k], PrimaryOf(ns, P, k), KindOf(ns, P, k))]
  <1>1. \A p \in P : joining[p] = Joining(ns, P, p)
    BY DEF Joining
  <1>2. AttachAll(ns, P) = read
    BY DEF AttachAll
  <1>3. \A k \in Listed : kind[k] = KindOf(ns, P, k)
    OBVIOUS
  <1> HIDE DEF kind, joining
  <1>4. \A k \in Live : read[k] = is[k]
    BY <1>1, <1>3
  <1>5. read = is
    BY <1>4
  <1> QED BY <1>2, <1>5

\* The same, case by case, for the primaries a run chooses.
LEMMA AttachFacts ==
    ASSUME TypeOK, facts \in Texts, NotesOK, NEW ns \in Assignments,
           NEW P \in PrimaryChoices(ns), NEW after, after = AttachAll(ns, P)
    PROVE  /\ after = [k \in Live |-> after[k]]
           /\ \A p \in P : after[p] = Leading(ns[p], p, Joining(ns, P, p))
           /\ \A k \in Listed : KindOf(ns, P, k) # None =>
                 after[k] = Attached(ns[k], PrimaryOf(ns, P, k), KindOf(ns, P, k))
           /\ \A k \in Live : (k \notin Listed \/ (k \notin P /\ KindOf(ns, P, k) = None))
                 => after[k] = ns[k]
  <1>1. P \subseteq Listed /\ Listed \subseteq Live /\ DOMAIN ns = Live
    BY PrimaryFacts, ListedIn, AssignmentFacts
  <1>2. after = [k \in Live |->
            IF k \in P THEN Leading(ns[k], k, Joining(ns, P, k))
            ELSE IF k \notin Listed \/ KindOf(ns, P, k) = None THEN ns[k]
            ELSE Attached(ns[k], PrimaryOf(ns, P, k), KindOf(ns, P, k))]
    BY <1>1, AttachAllIs
  <1>3. \A k \in Listed : KindOf(ns, P, k) # None => k \notin P
    BY KindFacts, PrimaryOfFacts
  <1>4. after = [k \in Live |-> after[k]]
    BY <1>2
  <1>5. \A p \in P : after[p] = Leading(ns[p], p, Joining(ns, P, p))
    BY <1>1, <1>2
  <1>6. \A k \in Listed : KindOf(ns, P, k) # None =>
                 after[k] = Attached(ns[k], PrimaryOf(ns, P, k), KindOf(ns, P, k))
    BY <1>1, <1>2, <1>3
  <1>7. \A k \in Live : (k \notin Listed \/ (k \notin P /\ KindOf(ns, P, k) = None))
                 => after[k] = ns[k]
    BY <1>1, <1>2
  <1> QED BY <1>4, <1>5, <1>6, <1>7

TakenOver(ns, P, p, i) ==
    CASE i \in {"exception", "supporting"} -> UNION {ClaimsOf(k) : k \in Joining(ns, P, p)[i]}
      [] i = "superseded" -> MixedIn(p)
      [] OTHER -> {}

\* Overwriting columns of a note.
IsNote(n, a, b, c, d, e, f, g) ==
    n = [label |-> a, role |-> b, sem |-> c, attachedTo |-> d, kind |-> e,
         attached |-> f, folded |-> g]

Overwrites(m, n, role, attachedTo, kind) ==
    m = [n EXCEPT !.role = role, !.attachedTo = attachedTo, !.kind = kind]

\* Clearing an attachment leaves the other columns.
LEMMA Detached ==
    ASSUME NEW a, NEW b, NEW c, NEW d, NEW e, NEW f, NEW g, NEW n, NEW m,
           IsNote(n, a, b, c, d, e, f, g),
           m = [n EXCEPT !.attachedTo = None]
    PROVE  IsNote(m, a, b, c, None, e, f, g)
  BY DEF IsNote

\* An attachment overwrites three columns.
LEMMA Overwritten ==
    ASSUME NEW a, NEW b, NEW c, NEW d, NEW e, NEW f, NEW g, NEW n, NEW m,
           NEW x, NEW y, NEW z,
           IsNote(n, a, b, c, d, e, f, g), Overwrites(m, n, z, x, y)
    PROVE  IsNote(m, a, z, c, x, y, f, g)
  BY DEF IsNote, Overwrites

\* A note is the record of its columns.
LEMMA NoteIs ==
    ASSUME NEW n, NoteOK(n)
    PROVE  IsNote(n, n.label, n.role, n.sem, n.attachedTo, n.kind, n.attached, n.folded)
  BY DEF NoteOK, IsNote

\* The note of a primary.
LEMMA LeadingNote ==
    ASSUME NEW n, NoteOK(n), NEW ns, NEW P, NEW p
    PROVE  Leading(n, p, Joining(ns, P, p)) =
               [label |-> n.label, role |-> n.role, sem |-> n.sem,
                attachedTo |-> None, kind |-> n.kind,
                attached |-> [i \in Kinds |-> n.attached[i] \cup Joining(ns, P, p)[i]],
                folded |-> [i \in Kinds |-> n.folded[i] \cup TakenOver(ns, P, p, i)]]
  <1>1. n = [label |-> n.label, role |-> n.role, sem |-> n.sem,
             attachedTo |-> n.attachedTo, kind |-> n.kind,
             attached |-> n.attached, folded |-> n.folded]
    BY DEF NoteOK
  <1> DEFINE u == Unattached(n)
             J == Joining(ns, P, p)
             at == [i \in Kinds |-> n.attached[i] \cup J[i]]
             fo == [i \in Kinds |-> n.folded[i] \cup TakenOver(ns, P, p, i)]
  <1>2. u = [label |-> n.label, role |-> n.role, sem |-> n.sem, attachedTo |-> None,
             kind |-> n.kind, attached |-> n.attached, folded |-> n.folded]
    <2>1. IsNote(n, n.label, n.role, n.sem, n.attachedTo, n.kind, n.attached, n.folded)
      BY NoteIs
    <2>2. u = [n EXCEPT !.attachedTo = None]
      BY DEF Unattached
    <2> HIDE DEF u
    <2>3. IsNote(u, n.label, n.role, n.sem, None, n.kind, n.attached, n.folded)
      BY <2>1, <2>2, Detached
    <2> QED BY <2>3 DEF IsNote
  <1>3. u.attached = n.attached /\ u.folded = n.folded
    BY <1>2
  <1>4. at = [i \in Kinds |-> u.attached[i] \cup J[i]]
    BY <1>3
  <1>5. fo = [i \in Kinds |-> u.folded[i] \cup
                (CASE i \in {"exception", "supporting"} -> UNION {ClaimsOf(k) : k \in J[i]}
                   [] i = "superseded" -> MixedIn(p)
                   [] OTHER -> {})]
    <2> HIDE DEF u
    <2> QED BY <1>3 DEF TakenOver
  <1>6. Leading(n, p, J) = [u EXCEPT !.attached = at, !.folded = fo]
    <2> HIDE DEF J
    <2> QED BY <1>4, <1>5 DEF Leading
  <1> HIDE DEF u, at, fo, J
  <1>7. Leading(n, p, J) = [label |-> n.label, role |-> n.role, sem |-> n.sem,
            attachedTo |-> None, kind |-> n.kind, attached |-> at, folded |-> fo]
    BY <1>2, <1>6
  <1> QED BY <1>7 DEF at, fo, J

\* The note of an attached cluster.
LEMMA AttachedNote ==
    ASSUME NEW n, NoteOK(n), NEW p, NEW i
    PROVE  Attached(n, p, i) =
               [label |-> n.label, role |-> RoleOf(i), sem |-> n.sem,
                attachedTo |-> p, kind |-> i, attached |-> n.attached, folded |-> n.folded]
  <1> DEFINE m == Attached(n, p, i)
  <1>1. IsNote(n, n.label, n.role, n.sem, n.attachedTo, n.kind, n.attached, n.folded)
    BY NoteIs
  <1>2. Overwrites(m, n, RoleOf(i), p, i)
    BY DEF Attached, Overwrites
  <1> HIDE DEF m
  <1>3. IsNote(m, n.label, RoleOf(i), n.sem, p, i, n.attached, n.folded)
    BY <1>1, <1>2, Overwritten
  <1> QED BY <1>3 DEF IsNote, m

\* What a run leaves of a cluster.
LEMMA AfterNote ==
    ASSUME TypeOK, facts \in Texts, NotesOK, NEW ns \in Assignments,
           NEW P \in PrimaryChoices(ns), NEW after, after = AttachAll(ns, P), NEW k \in Listed
    PROVE  /\ NoteOK(ns[k]) /\ NoteOK(after[k])
           /\ after[k].label = ns[k].label /\ after[k].sem = ns[k].sem
           /\ k \in P =>
                 /\ after[k].role = ns[k].role /\ after[k].attachedTo = None
                 /\ after[k].kind = ns[k].kind
                 /\ \A i \in Kinds : after[k].attached[i] = ns[k].attached[i] \cup Joining(ns, P, k)[i]
                 /\ \A i \in Kinds : after[k].folded[i] = ns[k].folded[i] \cup TakenOver(ns, P, k, i)
           /\ KindOf(ns, P, k) # None =>
                 /\ after[k].role = RoleOf(KindOf(ns, P, k))
                 /\ after[k].attachedTo = PrimaryOf(ns, P, k)
                 /\ after[k].kind = KindOf(ns, P, k)
           /\ k \notin P /\ KindOf(ns, P, k) = None => after[k] = ns[k]
  <1>1. NoteOK(ns[k]) /\ k \in Live
    BY AssignmentFacts, ListedIn
  <1>2. P \subseteq Listed /\ P \subseteq Clusters
    BY PrimaryFacts, ListedIn
  <1> DEFINE n == ns[k]
  <1>3. CASE k \in P
    <2>1. after[k] =
               [label |-> n.label, role |-> n.role, sem |-> n.sem,
                attachedTo |-> None, kind |-> n.kind,
                attached |-> [i \in Kinds |-> n.attached[i] \cup Joining(ns, P, k)[i]],
                folded |-> [i \in Kinds |-> n.folded[i] \cup TakenOver(ns, P, k, i)]]
      <3>1. after[k] = Leading(n, k, Joining(ns, P, k))
        BY <1>3, AttachFacts
      <3>2. NoteOK(n)
        BY <1>1
      <3> HIDE DEF n
      <3> QED BY <3>1, <3>2, LeadingNote
    <2>2. n.role \in Sem(facts)!ClusterRole
      BY <1>1 DEF NoteOK
    <2>3. KindOf(ns, P, k) = None
      BY <1>3, PrimaryOfFacts DEF KindOf
    <2> HIDE DEF n
    <2>4. NoteOK(after[k])
      BY <2>1, <2>2 DEF NoteOK
    <2> QED BY <1>1, <1>3, <2>1, <2>3, <2>4 DEF n
  <1>4. CASE KindOf(ns, P, k) # None
    <2> DEFINE p == PrimaryOf(ns, P, k)
               i == KindOf(ns, P, k)
    <2>1. after[k] =
               [label |-> n.label, role |-> RoleOf(i), sem |-> n.sem,
                attachedTo |-> p, kind |-> i, attached |-> n.attached, folded |-> n.folded]
      <3>1. after[k] = Attached(n, p, i)
        BY <1>4, AttachFacts
      <3>2. NoteOK(n)
        BY <1>1
      <3> HIDE DEF n, p, i
      <3> QED BY <3>1, <3>2, AttachedNote
    <2>2. p \in P /\ p # None /\ i # None /\ i \in Kinds /\ k \notin P
      BY <1>4, KindFacts, PrimaryOfFacts
    <2>3. RoleOf(i) \in Sem(facts)!ClusterRole
      BY <2>2 DEF RoleOf, Kinds, Sem!ClusterRole
    <2>4. NoteOK(n)
      BY <1>1
    <2> HIDE DEF n, p, i
    <2>5. NoteOK(after[k])
      BY <1>2, <2>1, <2>2, <2>3, <2>4 DEF NoteOK
    <2> QED BY <1>1, <1>4, <2>1, <2>2, <2>5 DEF n, p, i
  <1>5. CASE k \notin P /\ KindOf(ns, P, k) = None
    BY <1>1, <1>5, AttachFacts
  <1> QED BY <1>3, <1>4, <1>5

-----------------------------------------------------------------------------

\* What the state after a run says of it.
LEMMA LastRunFacts ==
    ASSUME CanonInv, result # None
    PROVE  \E ns \in Assignments :
              /\ result.primaries \in PrimaryChoices(ns)
              /\ notes = AttachAll(ns, result.primaries)
              /\ result.emitted = Emitted(notes)
              /\ result.sems = [k \in Listed |-> notes[k].sem]
              /\ result = [emitted |-> result.emitted, primaries |-> result.primaries,
                           sems |-> result.sems]
  <1>1. PICK ns \in Assignments : \E primaries \in PrimaryChoices(ns) : \E after :
            /\ after = AttachAll(ns, primaries) /\ notes = after
            /\ result = [emitted |-> Emitted(after), primaries |-> primaries,
                         sems |-> [k \in Listed |-> after[k].sem]]
    BY DEF CanonInv, LastRun
  <1>2. PICK P \in PrimaryChoices(ns) :
            /\ notes = AttachAll(ns, P)
            /\ result = [emitted |-> Emitted(notes), primaries |-> P,
                         sems |-> [k \in Listed |-> notes[k].sem]]
    BY <1>1
  <1> DEFINE e == Emitted(notes)
             w == [k \in Listed |-> notes[k].sem]
  <1>3. result = [emitted |-> e, primaries |-> P, sems |-> w]
    BY <1>2
  <1> HIDE DEF e, w
  <1>4. result.emitted = e /\ result.primaries = P /\ result.sems = w
    BY <1>3
  <1> QED BY <1>2, <1>3, <1>4 DEF e, w

\* A cluster that a run leaves unattached with a role that may be emitted
\* leads its domain: any other is attached to the one that does.
LEMMA EmittableLeads ==
    ASSUME NoUnknownAction, TypeOK, facts \in Texts, NotesOK, NEW ns \in Assignments,
           NEW P \in PrimaryChoices(ns), NEW after, after = AttachAll(ns, P), NEW k \in Listed,
           after[k].role \in EmittableRoles, after[k].attachedTo = None
    PROVE  k \in P
  <1> SUFFICES ASSUME k \notin P PROVE FALSE
    OBVIOUS
  <1>1. KindOf(ns, P, k) = None
    BY AfterNote, KindFacts
  <1>2. after[k] = ns[k]
    BY <1>1, AfterNote
  <1>3. k \in Able(ns)
    BY <1>2 DEF Able, EmittableRoles, Secondary
  <1>4. PICK p \in P : SameDomain(ns, k, p)
    BY <1>3, PrimaryFacts
  <1>5. ns[k].role # "implementation_detail"
    BY <1>2 DEF EmittableRoles
  <1> QED BY <1>1, <1>4, <1>5, DomainAttached

\* A canonical cluster of a domain: its primary.
LEMMA CanonicalLeads ==
    ASSUME NoUnknownAction, TypeOK, facts \in Texts, NotesOK, NEW ns \in Assignments,
           NEW P \in PrimaryChoices(ns), NEW after, after = AttachAll(ns, P), NEW k \in Listed,
           after[k].role = "canonical_rule"
    PROVE  k \in P
  <1> SUFFICES ASSUME k \notin P PROVE FALSE
    OBVIOUS
  <1>1. KindOf(ns, P, k) = None
    <2> SUFFICES ASSUME KindOf(ns, P, k) # None PROVE FALSE
      OBVIOUS
    <2>1. after[k].role = RoleOf(KindOf(ns, P, k)) /\ KindOf(ns, P, k) \in Kinds
      BY AfterNote, KindFacts
    <2> QED BY <2>1 DEF RoleOf, Kinds
  <1>2. after[k] = ns[k]
    BY <1>1, AfterNote
  <1>3. k \in Able(ns) /\ ns[k].role = "canonical_rule"
    BY <1>2 DEF Able, Secondary
  <1>4. PICK p \in P : SameDomain(ns, k, p)
    BY <1>3, PrimaryFacts
  <1> QED BY <1>1, <1>3, <1>4, DomainAttached

\* Attaching moves no cluster to another domain.
LEMMA SameDomainAfter ==
    ASSUME TypeOK, facts \in Texts, NotesOK, NEW ns \in Assignments,
           NEW P \in PrimaryChoices(ns), NEW after, after = AttachAll(ns, P),
           NEW k \in Listed, NEW l \in Listed
    PROVE  /\ SameDomain(ns, k, l) <=> Domain(after[k].sem) = Domain(after[l].sem)
           /\ SameDomain(ns, k, l) <=> SameDomain(after, k, l)
  <1>1. after[k].sem = ns[k].sem /\ after[l].sem = ns[l].sem
    BY AfterNote
  <1> QED BY <1>1 DEF SameDomain

\* What may become a rule: the primaries that are not locked.
LEMMA EmittedFacts ==
    ASSUME NoUnknownAction, TypeOK, facts \in Texts, NotesOK, NEW ns \in Assignments,
           NEW P \in PrimaryChoices(ns), NEW after, after = AttachAll(ns, P)
    PROVE  Emitted(after) = {k \in P : ~Locked(k)}
  <1>1. P \subseteq Listed /\ P \subseteq Able(ns) /\ \A p, q \in P : SameDomain(ns, p, q) => p = q
    BY PrimaryFacts
  <1>2. \A k \in Emitted(after) : k \in P /\ ~Locked(k)
    BY EmittableLeads DEF Emitted
  <1>3. ASSUME NEW k \in P, ~Locked(k)
        PROVE  k \in Emitted(after)
    <2>1. k \in Listed /\ ns[k].role \notin Secondary
      BY <1>1 DEF Able
    <2>2. ns[k].role \in EmittableRoles /\ ns[k].sem.authority # "superseded"
      <3>1. ns[k].role \in Sem(facts)!ClusterRole /\ (ns[k].sem.authority = "superseded" => ns[k].role \in Secondary)
        BY <2>1, AssignedReading
      <3> QED BY <2>1, <3>1 DEF Secondary, EmittableRoles, Sem!ClusterRole
    <2>3. /\ after[k].role = ns[k].role /\ after[k].attachedTo = None
          /\ after[k].sem = ns[k].sem
      BY <2>1, AfterNote
    <2>4. ASSUME after[k].role = "review_required", NEW l \in Listed,
                 after[l].role = "canonical_rule", SameDomain(after, k, l)
          PROVE  FALSE
      <3>1. l \in P
        BY <2>4, CanonicalLeads
      <3>2. SameDomain(ns, k, l)
        BY <2>1, <2>4, SameDomainAfter
      <3>3. k = l
        BY <1>1, <3>1, <3>2
      <3> QED BY <2>4, <3>3
    <2> QED BY <1>3, <2>1, <2>2, <2>3, <2>4 DEF Emitted
  <1>4. Emitted(after) \subseteq Listed
    BY DEF Emitted
  <1> QED BY <1>2, <1>3

\* The invariant contains the three properties of the state after a run.
LEMMA EmissionHolds ==
    ASSUME NoUnknownAction, CanonInv
    PROVE  OneEmissionPerDomain
  <1> SUFFICES ASSUME result # None
               PROVE  /\ result.emitted = {k \in result.primaries : ~Locked(k)}
                      /\ \A k, l \in result.emitted :
                            Domain(notes[k].sem) = Domain(notes[l].sem) => k = l
    BY DEF OneEmissionPerDomain
  <1>1. TypeOK /\ facts \in Texts /\ NotesOK
    BY DEF CanonInv
  <1>2. PICK ns \in Assignments :
              /\ result.primaries \in PrimaryChoices(ns)
              /\ notes = AttachAll(ns, result.primaries)
              /\ result.emitted = Emitted(notes)
    BY LastRunFacts
  <1>3. result.emitted = {k \in result.primaries : ~Locked(k)}
    BY <1>1, <1>2, EmittedFacts
  <1>4. /\ result.primaries \subseteq Listed
        /\ \A p, q \in result.primaries : SameDomain(ns, p, q) => p = q
    BY <1>1, <1>2, PrimaryFacts
  <1>5. ASSUME NEW k \in result.emitted, NEW l \in result.emitted,
               Domain(notes[k].sem) = Domain(notes[l].sem)
        PROVE  k = l
    <2>1. k \in result.primaries /\ l \in result.primaries
      BY <1>3
    <2>2. SameDomain(ns, k, l)
      BY <1>1, <1>2, <1>4, <1>5, <2>1, SameDomainAfter
    <2> QED BY <1>4, <2>1, <2>2
  <1> QED BY <1>3, <1>5

\* ... that attachments reach the primary,
LEMMA AttachmentsHold ==
    ASSUME NoUnknownAction, CanonInv
    PROVE  AttachmentsReachPrimary
  <1> SUFFICES ASSUME result # None, NEW k \in Listed, NEW p \in result.primaries,
                      k # p, Domain(notes[k].sem) = Domain(notes[p].sem),
                      notes[k].role # "implementation_detail"
               PROVE  /\ notes[k].attachedTo = p
                      /\ k \in notes[p].attached[notes[k].kind]
                      /\ notes[p].attachedTo = None
    BY DEF AttachmentsReachPrimary
  <1>1. TypeOK /\ facts \in Texts /\ NotesOK
    BY DEF CanonInv
  <1> DEFINE P == result.primaries
  <1>2. PICK ns \in Assignments : P \in PrimaryChoices(ns) /\ notes = AttachAll(ns, P)
    BY LastRunFacts
  <1> HIDE DEF P
  <1>3. p \in P /\ p \in Listed /\ P \subseteq Listed
    BY <1>1, <1>2, PrimaryFacts DEF P
  <1>4. SameDomain(ns, k, p)
    BY <1>1, <1>2, <1>3, SameDomainAfter
  <1>5. k \notin P
    BY <1>1, <1>2, <1>3, <1>4, PrimaryFacts
  <1>6. KindOf(ns, P, k) # None
    <2> SUFFICES ASSUME KindOf(ns, P, k) = None PROVE FALSE
      OBVIOUS
    <2>1. notes[k] = ns[k]
      BY <1>1, <1>2, <1>5, AfterNote
    <2> QED BY <1>1, <1>2, <1>3, <1>4, <2>1, DomainAttached
  <1>7. PrimaryOf(ns, P, k) = p /\ KindOf(ns, P, k) \in Kinds
    BY <1>1, <1>2, <1>3, <1>4, <1>5, <1>6, PrimaryOfFacts, KindFacts
  <1>8. notes[k].attachedTo = p /\ notes[k].kind = KindOf(ns, P, k)
    BY <1>1, <1>2, <1>6, <1>7, AfterNote
  <1>9. /\ notes[p].attachedTo = None
        /\ \A i \in Kinds : notes[p].attached[i] = ns[p].attached[i] \cup Joining(ns, P, p)[i]
    BY <1>1, <1>2, <1>3, AfterNote
  <1>10. k \in Joining(ns, P, p)[KindOf(ns, P, k)]
    BY <1>4, <1>7 DEF Joining
  <1> QED BY <1>7, <1>8, <1>9, <1>10

\* ... and that outdated claims are kept as evidence.
LEMMA EvidenceHolds ==
    ASSUME CanonInv
    PROVE  OutdatedStaysEvidence
  <1> SUFFICES ASSUME result # None, NEW p \in result.primaries, NEW c \in ClaimsOf(p), Outdated(c)
               PROVE  c \in notes[p].folded["superseded"]
    BY DEF OutdatedStaysEvidence
  <1>1. TypeOK /\ facts \in Texts /\ NotesOK
    BY DEF CanonInv
  <1> DEFINE P == result.primaries
  <1>2. PICK ns \in Assignments : P \in PrimaryChoices(ns) /\ notes = AttachAll(ns, P)
    BY LastRunFacts
  <1> HIDE DEF P
  <1>3. p \in P /\ p \in Listed /\ p \in Able(ns)
    BY <1>1, <1>2, PrimaryFacts DEF P
  <1>4. ns[p].role \notin Secondary
    BY <1>3 DEF Able
  <1>5. ~ \A d \in ClaimsOf(p) : Outdated(d)
    BY <1>1, <1>2, <1>3, <1>4, AssignedReading
  <1>6. c \in MixedIn(p)
    BY <1>5 DEF MixedIn
  <1>7. notes[p].folded["superseded"] = ns[p].folded["superseded"] \cup TakenOver(ns, P, p, "superseded")
    <2>1. "superseded" \in Kinds
      BY DEF Kinds
    <2> QED BY <1>1, <1>2, <1>3, <2>1, AfterNote
  <1> QED BY <1>6, <1>7 DEF TakenOver

-----------------------------------------------------------------------------

\* A claim is in one cluster, so no conflict is with itself.
LEMMA ConflictsOfTwo ==
    ASSUME TypeOK, OneClusterPerClaim, facts \in Texts, NotesOK, NEW ns \in Assignments,
           NEW P \in PrimaryChoices(ns), NEW row \in NewConflicts(ns, P)
    PROVE  row[1] # row[2]
  <1>1. ASSUME NEW as, NEW bs, as \cap bs = {}, NEW x \in ConflictRows(as, bs)
        PROVE  x[1] # x[2]
    <2>1. PICK pair \in as \X bs :
              \E kind : x = <<pair[1], pair[2], kind>>
      BY <1>1 DEF ConflictRows
    <2> DEFINE y == pair[1]
               z == pair[2]
    <2>2. y \in as /\ z \in bs
      OBVIOUS
    <2>3. PICK kind : x = <<y, z, kind>>
      BY <2>1
    <2> HIDE DEF y, z
    <2>4. x[1] = y /\ x[2] = z
      BY <2>3
    <2> QED BY <1>1, <2>2, <2>4
  <1>2. \A k, l \in Live : k # l => ClaimsOf(k) \cap ClaimsOf(l) = {}
    BY DEF ClaimsOf, RowsOf, OneClusterPerClaim
  <1>3. CASE \E p \in P : row \in ConflictRows(ClaimsOf(p) \ MixedIn(p), MixedIn(p))
    BY <1>1, <1>3
  <1>4. CASE \E k \in Listed : /\ KindOf(ns, P, k) = "superseded"
                              /\ row \in ConflictRows(ClaimsOf(PrimaryOf(ns, P, k)), ClaimsOf(k))
    <2>1. PICK k \in Listed : /\ KindOf(ns, P, k) = "superseded"
                              /\ row \in ConflictRows(ClaimsOf(PrimaryOf(ns, P, k)), ClaimsOf(k))
      BY <1>4
    <2>2. KindOf(ns, P, k) # None
      BY <2>1, RunsAssumption DEF Kinds
    <2>3. PrimaryOf(ns, P, k) \in P /\ k \notin P
      BY <2>2, KindFacts, PrimaryOfFacts
    <2>4. PrimaryOf(ns, P, k) \in Live /\ k \in Live
      BY <2>3, PrimaryFacts, ListedIn
    <2>5. ClaimsOf(PrimaryOf(ns, P, k)) \cap ClaimsOf(k) = {}
      BY <1>2, <2>3, <2>4
    <2> QED BY <1>1, <2>1, <2>5
  <1> DEFINE byMix == {ConflictRows(ClaimsOf(p) \ MixedIn(p), MixedIn(p)) : p \in P}
             old == {k \in Listed : KindOf(ns, P, k) = "superseded"}
             byOld == {ConflictRows(ClaimsOf(PrimaryOf(ns, P, k)), ClaimsOf(k)) : k \in old}
  <1>5. row \in UNION byMix \/ row \in UNION byOld
    <2>1. NewConflicts(ns, P) = (UNION byMix) \cup (UNION byOld)
      BY DEF NewConflicts
    <2> HIDE DEF byMix, byOld
    <2> QED BY <2>1
  <1>6. (row \in UNION byMix) => \E p \in P : row \in ConflictRows(ClaimsOf(p) \ MixedIn(p), MixedIn(p))
    OBVIOUS
  <1>7. (row \in UNION byOld) =>
            \E k \in Listed : /\ KindOf(ns, P, k) = "superseded"
                              /\ row \in ConflictRows(ClaimsOf(PrimaryOf(ns, P, k)), ClaimsOf(k))
    OBVIOUS
  <1> HIDE DEF byMix, byOld
  <1> QED BY <1>3, <1>4, <1>5, <1>6, <1>7

\* Every row is stored once by a run.
LEMMA ConflictsCounted ==
    ASSUME CanonInv, runs < MaxRuns, NEW ns \in Assignments, NEW P \in PrimaryChoices(ns),
           runs' = runs + 1, conflicts' = AddRows(NewConflicts(ns, P))
    PROVE  ConflictsOK'
  <1> DEFINE more == NewConflicts(ns, P)
  <1>1. /\ runs \in 0..MaxRuns
        /\ \A row \in DOMAIN conflicts : row[1] # row[2] /\ conflicts[row] \in 1..runs
    BY DEF CanonInv, ConflictsOK
  <1>2. \A row \in more : row[1] # row[2]
    BY ConflictsOfTwo DEF CanonInv
  <1> HIDE DEF more
  <1>3. MaxRuns \in Nat
    BY RunsAssumption
  <1>4. /\ DOMAIN conflicts' = DOMAIN conflicts \cup more
        /\ \A row \in DOMAIN conflicts \cup more :
              conflicts'[row] = (IF row \in DOMAIN conflicts THEN conflicts[row] ELSE 0)
                                  + (IF row \in more THEN 1 ELSE 0)
    BY DEF AddRows, more
  <1>5. ASSUME NEW row \in DOMAIN conflicts'
        PROVE  row[1] # row[2] /\ conflicts'[row] \in 1..(runs + 1)
    <2>1. CASE row \in DOMAIN conflicts
      <3>1. conflicts[row] \in 1..runs
        BY <1>1, <2>1
      <3>2. conflicts'[row] = conflicts[row] + 1 \/ conflicts'[row] = conflicts[row]
        BY <1>1, <1>4, <2>1
      <3> QED BY <1>1, <2>1, <3>1, <3>2
    <2>2. CASE row \notin DOMAIN conflicts
      <3>1. row \in more /\ conflicts'[row] = 1
        BY <1>4, <2>2
      <3> QED BY <1>1, <1>2, <3>1
    <2> QED BY <2>1, <2>2
  <1>6. runs' \in 0..MaxRuns
    BY <1>1, <1>3
  <1> QED BY <1>5, <1>6 DEF ConflictsOK

\* Which clusters lead and how the others are attached follow from the roles
\* and semantics alone.
LEMMA SameReadings ==
    ASSUME TypeOK, NEW ns, NEW other, NEW P, P \subseteq Listed,
           \A k \in Listed : other[k].role = ns[k].role /\ other[k].sem = ns[k].sem
    PROVE  /\ PrimaryChoices(other) = PrimaryChoices(ns)
           /\ \A k \in Listed : /\ PrimaryOf(other, P, k) = PrimaryOf(ns, P, k)
                                /\ KindOf(other, P, k) = KindOf(ns, P, k)
           /\ \A p \in P : /\ Joining(other, P, p) = Joining(ns, P, p)
                           /\ \A i : TakenOver(other, P, p, i) = TakenOver(ns, P, p, i)
  <1>1. \A k, l \in Listed : SameDomain(other, k, l) <=> SameDomain(ns, k, l)
    BY DEF SameDomain
  <1>2. Able(other) = Able(ns) /\ Able(ns) \subseteq Listed
    BY DEF Able
  <1>3. \A k \in Listed : RankKey(other, k) = RankKey(ns, k)
    BY DEF RankKey
  <1>4. [k \in Able(other) |-> RankKey(other, k)] = [k \in Able(ns) |-> RankKey(ns, k)]
    BY <1>2, <1>3
  <1> DEFINE key == [k \in Able(ns) |-> RankKey(ns, k)]
             best(n) == {k \in Able(ns) : \A l \in Able(ns) : SameDomain(n, k, l) => ~Below(key[k], key[l])}
             chosen(n, b) == {Q \in SUBSET b : \A k \in b : Cardinality({p \in Q : SameDomain(n, k, p)}) = 1}
  <1>5. best(other) = best(ns)
    <2> HIDE DEF key
    <2> QED BY <1>1, <1>2
  <1>6. chosen(other, best(ns)) = chosen(ns, best(ns))
    <2>1. best(ns) \subseteq Listed
      BY <1>2
    <2> DEFINE b == best(ns)
    <2> HIDE DEF b
    <2>2. \A Q \in SUBSET b, k \in b :
              {p \in Q : SameDomain(other, k, p)} = {p \in Q : SameDomain(ns, k, p)}
      BY <1>1, <2>1 DEF b
    <2>3. chosen(other, b) = chosen(ns, b)
      BY <2>2
    <2> QED BY <2>3 DEF b
  <1>7. PrimaryChoices(ns) = chosen(ns, best(ns))
    BY DEF PrimaryChoices
  <1>8. PrimaryChoices(other) = chosen(other, best(other))
    BY <1>2, <1>4 DEF PrimaryChoices
  <1>9. PrimaryChoices(other) = PrimaryChoices(ns)
    <2> HIDE DEF chosen, best
    <2> QED BY <1>5, <1>6, <1>7, <1>8
  <1>10. ASSUME NEW k \in Listed
         PROVE  PrimaryOf(other, P, k) = PrimaryOf(ns, P, k)
    <2> DEFINE f(n) == {p \in P \ {k} : k \notin P /\ SameDomain(n, k, p)}
               a == f(other)
               b == f(ns)
    <2>1. a = b
      BY <1>1
    <2>2. PrimaryOf(other, P, k) = IF a = {} THEN None ELSE CHOOSE p \in a : TRUE
      BY DEF PrimaryOf
    <2>3. PrimaryOf(ns, P, k) = IF b = {} THEN None ELSE CHOOSE p \in b : TRUE
      BY DEF PrimaryOf
    <2> HIDE DEF a, b
    <2> QED BY <2>1, <2>2, <2>3
  <1>11. ASSUME NEW k \in Listed
         PROVE  KindOf(other, P, k) = KindOf(ns, P, k)
    <2>1. PrimaryOf(ns, P, k) # None => PrimaryOf(ns, P, k) \in P
      <3>1. \A S : S # {} => (CHOOSE x \in S : TRUE) \in S
        OBVIOUS
      <3> QED BY <3>1 DEF PrimaryOf
    <2>2. \A l \in Listed : Attachment(other[k], other[l]) = Attachment(ns[k], ns[l])
      BY DEF Attachment, IsSupersededSecondary, IsExceptionSecondary
    <2> QED BY <1>10, <2>1, <2>2 DEF KindOf
  <1>12. ASSUME NEW p \in P
         PROVE  Joining(other, P, p) = Joining(ns, P, p)
    <2>1. \A i \in Kinds :
              {k \in Listed : KindOf(other, P, k) = i /\ SameDomain(other, k, p)}
                = {k \in Listed : KindOf(ns, P, k) = i /\ SameDomain(ns, k, p)}
      BY <1>1, <1>11
    <2> QED BY <2>1 DEF Joining
  <1>13. \A p \in P : \A i : TakenOver(other, P, p, i) = TakenOver(ns, P, p, i)
    BY <1>12 DEF TakenOver
  <1> QED BY <1>9, <1>10, <1>11, <1>12, <1>13

\* The readings of ns, assigned to the notes a run wrote.
Reassigned(ns, after) ==
    [k \in Live |-> IF k \in Listed
                    THEN [after[k] EXCEPT !.role = ns[k].role, !.sem = ns[k].sem]
                    ELSE after[k]]

Rereads(m, n, role, sem) == m = [n EXCEPT !.role = role, !.sem = sem]

\* A new reading overwrites two columns.
LEMMA Relabelled ==
    ASSUME NEW a, NEW b, NEW c, NEW d, NEW e, NEW f, NEW g, NEW n, NEW m, NEW x, NEW y,
           IsNote(n, a, b, c, d, e, f, g), Rereads(m, n, x, y)
    PROVE  IsNote(m, a, x, y, d, e, f, g)
  BY DEF IsNote, Rereads

\* The note a run assigns to its own output.
LEMMA ReassignedNote ==
    ASSUME NEW ns, NEW after, NEW k \in Listed, k \in Live, NoteOK(ns[k]), NoteOK(after[k])
    PROVE  /\ NoteOK(Reassigned(ns, after)[k])
           /\ IsNote(Reassigned(ns, after)[k], after[k].label, ns[k].role, ns[k].sem,
                     after[k].attachedTo, after[k].kind, after[k].attached, after[k].folded)
  <1> DEFINE n == after[k]
             m == Reassigned(ns, after)[k]
             x == ns[k].role
             y == ns[k].sem
  <1>1. IsNote(n, n.label, n.role, n.sem, n.attachedTo, n.kind, n.attached, n.folded)
    BY NoteIs
  <1>2. Rereads(m, n, x, y)
    BY DEF Reassigned, Rereads
  <1>3. x \in Sem(facts)!ClusterRole
    BY DEF NoteOK
  <1> HIDE DEF m, x, y
  <1>4. IsNote(m, n.label, x, y, n.attachedTo, n.kind, n.attached, n.folded)
    <2> HIDE DEF n
    <2> QED BY <1>1, <1>2, Relabelled
  <1>5. NoteOK(n)
    OBVIOUS
  <1>6. NoteOK(m)
    <2> HIDE DEF n
    <2> QED BY <1>3, <1>4, <1>5 DEF NoteOK, IsNote
  <1> QED BY <1>4, <1>6 DEF m, n, x, y

\* Two notes with the same columns are the same.
LEMMA SameNote ==
    ASSUME NEW m, NEW n, NoteOK(m), NoteOK(n),
           m.label = n.label, m.role = n.role, m.sem = n.sem,
           m.attachedTo = n.attachedTo, m.kind = n.kind,
           \A i \in Kinds : m.attached[i] = n.attached[i] /\ m.folded[i] = n.folded[i]
    PROVE  m = n
  <1>1. m.attached = n.attached /\ m.folded = n.folded
    BY DEF NoteOK
  <1> QED BY <1>1 DEF NoteOK

\* Assigning the same readings to its own output, a run repeats itself.
LEMMA RepeatedRun ==
    ASSUME TypeOK, facts \in Texts, NotesOK, NEW ns \in Assignments,
           NEW P \in PrimaryChoices(ns), NEW after, after = AttachAll(ns, P)
    PROVE  /\ P \in PrimaryChoices(Reassigned(ns, after))
           /\ AttachAll(Reassigned(ns, after), P) = after
  <1> DEFINE again == Reassigned(ns, after)
             repeat == AttachAll(again, P)
  <1>1. P \subseteq Listed /\ Listed \subseteq Live /\ after = [k \in Live |-> after[k]]
    BY PrimaryFacts, ListedIn, AttachFacts
  <1>2. again = [k \in Live |-> again[k]]
    BY DEF Reassigned
  <1>3. ASSUME NEW k \in Listed
        PROVE  /\ NoteOK(ns[k]) /\ NoteOK(after[k]) /\ NoteOK(again[k])
               /\ again[k].label = ns[k].label
               /\ again[k].role = ns[k].role /\ again[k].sem = ns[k].sem
               /\ again[k].attachedTo = after[k].attachedTo /\ again[k].kind = after[k].kind
               /\ again[k].attached = after[k].attached /\ again[k].folded = after[k].folded
    <2>1. NoteOK(ns[k]) /\ NoteOK(after[k]) /\ after[k].label = ns[k].label /\ k \in Live
      BY <1>1, AfterNote
    <2>2. /\ NoteOK(again[k])
          /\ IsNote(again[k], after[k].label, ns[k].role, ns[k].sem,
                    after[k].attachedTo, after[k].kind, after[k].attached, after[k].folded)
      BY <2>1, ReassignedNote
    <2> HIDE DEF again
    <2> QED BY <2>1, <2>2 DEF IsNote
  <1>4. ASSUME NEW k \in Live \ Listed
        PROVE  again[k] = after[k]
    BY <1>4 DEF Reassigned
  <1> HIDE DEF again
  <1>5. /\ PrimaryChoices(again) = PrimaryChoices(ns)
        /\ \A k \in Listed : /\ PrimaryOf(again, P, k) = PrimaryOf(ns, P, k)
                             /\ KindOf(again, P, k) = KindOf(ns, P, k)
        /\ \A p \in P : /\ Joining(again, P, p) = Joining(ns, P, p)
                        /\ \A i : TakenOver(again, P, p, i) = TakenOver(ns, P, p, i)
    BY <1>1, <1>3, SameReadings
  <1>6. repeat = [k \in Live |->
                   IF k \in P THEN Leading(again[k], k, Joining(again, P, k))
                   ELSE IF k \notin Listed \/ KindOf(again, P, k) = None THEN again[k]
                   ELSE Attached(again[k], PrimaryOf(again, P, k), KindOf(again, P, k))]
    BY <1>1, <1>2, AttachAllIs
  <1> HIDE DEF repeat
  <1>7. ASSUME NEW k \in P
        PROVE  repeat[k] = after[k]
    <2> DEFINE n == again[k]
               J == Joining(again, P, k)
    <2>1. k \in Listed /\ k \in Live /\ NoteOK(n) /\ NoteOK(after[k])
      BY <1>1, <1>3
    <2>2. repeat[k] = Leading(n, k, J)
      BY <1>6, <2>1
    <2>3. repeat[k] =
               [label |-> n.label, role |-> n.role, sem |-> n.sem,
                attachedTo |-> None, kind |-> n.kind,
                attached |-> [i \in Kinds |-> n.attached[i] \cup J[i]],
                folded |-> [i \in Kinds |-> n.folded[i] \cup TakenOver(again, P, k, i)]]
      <3> HIDE DEF n
      <3> QED BY <2>1, <2>2, LeadingNote
    <2>4. NoteOK(repeat[k])
      <3>1. n.role \in Sem(facts)!ClusterRole
        BY <2>1 DEF NoteOK
      <3> HIDE DEF n, J
      <3> QED BY <2>3, <3>1 DEF NoteOK
    <2>5. /\ after[k].label = ns[k].label /\ after[k].sem = ns[k].sem
          /\ after[k].role = ns[k].role /\ after[k].attachedTo = None /\ after[k].kind = ns[k].kind
          /\ \A i \in Kinds : after[k].attached[i] = ns[k].attached[i] \cup Joining(ns, P, k)[i]
          /\ \A i \in Kinds : after[k].folded[i] = ns[k].folded[i] \cup TakenOver(ns, P, k, i)
      BY <2>1, AfterNote
    <2>6. /\ n.label = ns[k].label /\ n.role = ns[k].role /\ n.sem = ns[k].sem
          /\ n.attached = after[k].attached /\ n.folded = after[k].folded
          /\ n.kind = after[k].kind
      BY <1>3, <2>1
    <2>7. /\ J = Joining(ns, P, k) /\ \A i : TakenOver(again, P, k, i) = TakenOver(ns, P, k, i)
      BY <1>5
    <2>8. \A i \in Kinds : /\ repeat[k].attached[i] = after[k].attached[i]
                           /\ repeat[k].folded[i] = after[k].folded[i]
      <3> HIDE DEF n, J
      <3> QED BY <2>3, <2>5, <2>6, <2>7
    <2>9. /\ repeat[k].label = n.label /\ repeat[k].role = n.role /\ repeat[k].sem = n.sem
          /\ repeat[k].attachedTo = None /\ repeat[k].kind = n.kind
      <3> HIDE DEF n, J
      <3> QED BY <2>3
    <2> QED BY <2>1, <2>4, <2>5, <2>6, <2>8, <2>9, SameNote
  <1>8. ASSUME NEW k \in Listed, KindOf(ns, P, k) # None
        PROVE  repeat[k] = after[k]
    <2> DEFINE n == again[k]
               i == KindOf(ns, P, k)
               p == PrimaryOf(ns, P, k)
    <2>1. k \notin P /\ k \in Live /\ NoteOK(n) /\ NoteOK(after[k])
      BY <1>1, <1>3, <1>8, KindFacts, PrimaryOfFacts
    <2>2. repeat[k] = Attached(n, p, i)
      BY <1>5, <1>6, <1>8, <2>1
    <2>3. repeat[k] = [label |-> n.label, role |-> RoleOf(i), sem |-> n.sem,
                       attachedTo |-> p, kind |-> i, attached |-> n.attached, folded |-> n.folded]
      <3> HIDE DEF n, i, p
      <3> QED BY <2>1, <2>2, AttachedNote
    <2>4. /\ after[k].role = RoleOf(i) /\ after[k].attachedTo = p /\ after[k].kind = i
          /\ after[k].label = ns[k].label /\ after[k].sem = ns[k].sem
      BY <1>8, AfterNote
    <2>5. /\ n.label = ns[k].label /\ n.sem = ns[k].sem
          /\ n.attached = after[k].attached /\ n.folded = after[k].folded
      BY <1>3
    <2>6. after[k] = [label |-> n.label, role |-> RoleOf(i), sem |-> n.sem,
                      attachedTo |-> p, kind |-> i, attached |-> n.attached, folded |-> n.folded]
      <3> HIDE DEF n, i, p
      <3> QED BY <2>1, <2>4, <2>5 DEF NoteOK
    <2> QED BY <2>3, <2>6
  <1>9. ASSUME NEW k \in Listed, k \notin P, KindOf(ns, P, k) = None
        PROVE  repeat[k] = after[k]
    <2>1. repeat[k] = again[k]
      BY <1>1, <1>5, <1>6, <1>9
    <2>2. after[k] = ns[k]
      BY <1>9, AfterNote
    <2> QED BY <1>3, <2>1, <2>2, SameNote
  <1>10. ASSUME NEW k \in Live \ Listed
         PROVE  repeat[k] = after[k]
    BY <1>1, <1>4, <1>6, <1>10
  <1>11. \A k \in Live : repeat[k] = after[k]
    BY <1>7, <1>8, <1>9, <1>10
  <1>12. repeat = after
    BY <1>1, <1>6, <1>11
  <1> QED BY <1>5, <1>12 DEF again, repeat

\* The label a family is taken from does not change the authority.
LEMMA PreparedAuthority ==
    ASSUME NEW k, NEW order
    PROVE  Prepared(k, order).authority = Sem(facts)!ClusterSemantics(order).authority
  <1> DEFINE sem == Sem(facts)!ClusterSemantics(order)
  <1>1. DOMAIN sem = {"family", "actor", "threshold", "state", "timing", "exception", "authority"}
    BY DEF Sem!ClusterSemantics, Sem!MergeSemantics, Sem!NoSemantics
  <1> HIDE DEF sem
  <1> QED BY <1>1 DEF Prepared, sem

\* The order of the claims changes the role through the semantics only.
LEMMA RoleFollowsSemantics ==
    ASSUME TypeOK, NEW k \in Listed, NEW r \in Readings(k), NEW q \in Readings(k), r.sem = q.sem
    PROVE  r.role = q.role
  <1>1. PICK order \in SetToSeqs(ClaimsOf(k)) :
            r = [role |-> Sem(facts)!AssignRole(order), sem |-> Prepared(k, order)]
    BY DEF Readings
  <1>2. PICK other \in SetToSeqs(ClaimsOf(k)) :
            q = [role |-> Sem(facts)!AssignRole(other), sem |-> Prepared(k, other)]
    BY DEF Readings
  <1> DEFINE cs == ClaimsOf(k)
  <1>3. cs \in SUBSET Claims /\ IsFiniteSet(cs)
    BY ListedIn, TablesAreFinite, FS_Subset
  <1>4. Sem(facts)!Range(order) = cs /\ Sem(facts)!Range(other) = cs
    BY <1>3, OrderRange DEF Range, Sem!Range
  <1>5. Prepared(k, order) = Prepared(k, other)
    BY <1>1, <1>2
  <1>6. Sem(facts)!ClusterSemantics(order).authority = Sem(facts)!ClusterSemantics(other).authority
    BY <1>5, PreparedAuthority
  <1> HIDE DEF cs
  <1>7. Sem(facts)!IsCanonical(cs, Sem(facts)!ClusterSemantics(order))
          <=> Sem(facts)!IsCanonical(cs, Sem(facts)!ClusterSemantics(other))
    BY <1>6 DEF Sem!IsCanonical
  <1>8. Sem(facts)!AssignRole(order) = Sem(facts)!AssignRole(other)
    BY <1>4, <1>7 DEF Sem!AssignRole
  <1> QED BY <1>1, <1>2, <1>8

\* A run that reads and chooses as the last one writes and returns the same.
LEMMA SameRun ==
    ASSUME CanonInv, result # None, NEW ns \in Assignments,
           result.primaries \in PrimaryChoices(ns),
           result.sems = [k \in Listed |-> ns[k].sem]
    PROVE  /\ AttachAll(ns, result.primaries) = notes
           /\ result = [emitted |-> Emitted(AttachAll(ns, result.primaries)),
                        primaries |-> result.primaries,
                        sems |-> [k \in Listed |-> ns[k].sem]]
  <1>1. TypeOK /\ facts \in Texts /\ NotesOK
    BY DEF CanonInv
  <1> DEFINE w == [k \in Listed |-> notes[k].sem]
  <1>2. PICK last \in Assignments :
            /\ result.primaries \in PrimaryChoices(last)
            /\ notes = AttachAll(last, result.primaries)
            /\ result.emitted = Emitted(notes)
            /\ result.sems = w
            /\ result = [emitted |-> result.emitted, primaries |-> result.primaries,
                         sems |-> result.sems]
    BY LastRunFacts
  <1>3. result.sems = w
    BY <1>2
  <1>4. \A k \in Listed : last[k].sem = notes[k].sem
    BY <1>1, <1>2, AfterNote
  <1>5. \A k \in Listed : ns[k].sem = last[k].sem
    <2> TAKE k \in Listed
    <2>1. result.sems[k] = ns[k].sem
      OBVIOUS
    <2>2. w[k] = notes[k].sem
      OBVIOUS
    <2> QED BY <1>3, <1>4, <2>1, <2>2
  <1>6. \A k \in Listed : ns[k].role = last[k].role
    <2> TAKE k \in Listed
    <2> DEFINE r == [role |-> ns[k].role, sem |-> ns[k].sem]
               q == [role |-> last[k].role, sem |-> last[k].sem]
    <2>1. r \in Readings(k) /\ q \in Readings(k)
      BY <1>1, AssignmentFacts
    <2>2. r.sem = q.sem /\ r.role = ns[k].role /\ q.role = last[k].role
      BY <1>5
    <2> HIDE DEF r, q
    <2> QED BY <1>1, <2>1, <2>2, RoleFollowsSemantics
  <1>7. ns = last
    <2>1. ns = [k \in Live |-> ns[k]] /\ last = [k \in Live |-> last[k]]
      BY <1>1, AssignmentFacts
    <2>2. \A k \in Listed : ns[k] = last[k]
      <3> TAKE k \in Listed
      <3>1. /\ ns[k] = [notes[k] EXCEPT !.role = ns[k].role, !.sem = ns[k].sem]
            /\ last[k] = [notes[k] EXCEPT !.role = last[k].role, !.sem = last[k].sem]
        BY <1>1, AssignmentFacts
      <3>2. [notes[k] EXCEPT !.role = ns[k].role, !.sem = ns[k].sem]
              = [notes[k] EXCEPT !.role = last[k].role, !.sem = last[k].sem]
        BY <1>5, <1>6
      <3> QED BY <3>1, <3>2, Zenon
    <2>3. \A k \in Live \ Listed : ns[k] = last[k]
      BY <1>1, AssignmentFacts
    <2>4. \A k \in Live : ns[k] = last[k]
      BY <2>2, <2>3
    <2> QED BY <2>1, <2>4
  <1> HIDE DEF w
  <1>8. /\ AttachAll(ns, result.primaries) = notes
        /\ Emitted(AttachAll(ns, result.primaries)) = result.emitted
    BY <1>2, <1>7
  <1> QED BY <1>2, <1>8

-----------------------------------------------------------------------------

\* What a run computes from the clusters, their claims and the texts, it
\* computes again as long as these stay.
LEMMA SameClusters ==
    ASSUME clusters' = clusters, rows' = rows, facts' = facts
    PROVE  /\ Live' = Live /\ Listed' = Listed
           /\ \A k : ClaimsOf(k)' = ClaimsOf(k) /\ MixedIn(k)' = MixedIn(k) /\ Locked(k)' = Locked(k)
           /\ \A ns : PrimaryChoices(ns)' = PrimaryChoices(ns)
           /\ \A ns, P : AttachAll(ns, P)' = AttachAll(ns, P)
           /\ \A ns : Emitted(ns)' = Emitted(ns)
           /\ \A note : NoteOK(note)' <=> NoteOK(note)
  <1>1. Live' = Live /\ Listed' = Listed
    BY DEF Live, Listed
  <1>2. \A k : ClaimsOf(k)' = ClaimsOf(k) /\ MixedIn(k)' = MixedIn(k) /\ Locked(k)' = Locked(k)
    BY DEF ClaimsOf, RowsOf, MixedIn, Locked, Outdated
  <1>3. \A ns : Able(ns)' = Able(ns)
    BY <1>1 DEF Able
  <1>4. \A ns, k : RankKey(ns, k)' = RankKey(ns, k)
    BY <1>2 DEF RankKey
  <1>5. \A ns : PrimaryChoices(ns)' = PrimaryChoices(ns)
    BY <1>3, <1>4 DEF PrimaryChoices, SameDomain
  <1>6. \A note, primary : Attachment(note, primary)' = Attachment(note, primary)
    BY DEF Attachment
  <1>7. \A ns, P, k : KindOf(ns, P, k)' = KindOf(ns, P, k)
    BY <1>6 DEF KindOf
  <1>8. ASSUME NEW n, NEW p, NEW joined
        PROVE  Leading(n, p, joined)' = Leading(n, p, joined)
    <2> DEFINE u == Unattached(n)
               more(i) == CASE i \in {"exception", "supporting"} -> UNION {ClaimsOf(k) : k \in joined[i]}
                            [] i = "superseded" -> MixedIn(p)
                            [] OTHER -> {}
               more2(i) == CASE i \in {"exception", "supporting"} -> UNION {ClaimsOf(k)' : k \in joined[i]}
                             [] i = "superseded" -> MixedIn(p)'
                             [] OTHER -> {}
               at == [i \in Kinds |-> u.attached[i] \cup joined[i]]
               fo == [i \in Kinds |-> u.folded[i] \cup more(i)]
               fo2 == [i \in Kinds |-> u.folded[i] \cup more2(i)]
    <2>1. \A i \in Kinds : more2(i) = more(i)
      <3> TAKE i \in Kinds
      <3>1. UNION {ClaimsOf(k)' : k \in joined[i]} = UNION {ClaimsOf(k) : k \in joined[i]}
        BY <1>2
      <3> QED BY <1>2, <3>1
    <2>2. fo2 = fo
      <3> HIDE DEF more, more2, u
      <3> QED BY <2>1
    <2>3. Leading(n, p, joined) = [u EXCEPT !.attached = at, !.folded = fo]
      BY DEF Leading
    <2>4. Leading(n, p, joined)' = [u EXCEPT !.attached = at, !.folded = fo2]
      BY DEF Leading, Unattached
    <2> HIDE DEF fo, fo2, at, u
    <2> QED BY <2>2, <2>3, <2>4
  <1>9. ASSUME NEW ns, NEW P
        PROVE  AttachAll(ns, P)' = AttachAll(ns, P)
    <2> DEFINE kind == [k \in Listed |-> KindOf(ns, P, k)]
               joining == [p \in P |->
                              [i \in Kinds |-> {k \in Listed : kind[k] = i /\ SameDomain(ns, k, p)}]]
               all == [k \in DOMAIN ns |->
                         IF k \in P THEN Leading(ns[k], k, joining[k])
                         ELSE IF k \notin Listed \/ kind[k] = None THEN ns[k]
                         ELSE Attached(ns[k], PrimaryOf(ns, P, k), kind[k])]
    <2>1. kind' = kind
      BY <1>1, <1>7
    <2>2. joining' = joining
      <3> HIDE DEF kind
      <3> QED BY <1>1, <2>1 DEF SameDomain
    <2>3. AttachAll(ns, P) = all
      BY DEF AttachAll
    <2>4. AttachAll(ns, P)' = all'
      BY DEF AttachAll
    <2>5. all' = all
      <3> HIDE DEF kind, joining
      <3> QED BY <1>1, <1>8, <2>1, <2>2 DEF Attached, PrimaryOf, SameDomain
    <2> HIDE DEF all
    <2> QED BY <2>3, <2>4, <2>5
  <1>10. \A ns : Emitted(ns)' = Emitted(ns)
    BY <1>1, <1>2 DEF Emitted
  <1>11. \A note : NoteOK(note)' <=> NoteOK(note)
    BY DEF NoteOK
  <1> QED BY <1>1, <1>2, <1>5, <1>9, <1>10, <1>11

\* A run leaves the readings of every cluster as they were.
LEMMA SameReadingsAfter ==
    ASSUME clusters' = clusters, rows' = rows, facts' = facts,
           NEW k, notes'[k].label = notes[k].label
    PROVE  Readings(k)' = Readings(k)
  <1>1. \A order : Prepared(k, order)' = Prepared(k, order)
    BY DEF Prepared
  <1>2. ClaimsOf(k)' = ClaimsOf(k)
    BY SameClusters
  <1> QED BY <1>1, <1>2 DEF Readings

\* A run keeps the invariant: its output explains itself as the last run.
LEMMA RunKept ==
    ASSUME CanonInv, NEW s \in Sessions, Canonicalize(s)
    PROVE  /\ NotesOK' /\ ConflictsOK' /\ LastRun'
           /\ \A k \in Listed : notes'[k].label = notes[k].label
  <1>1. /\ TypeOK /\ facts \in Texts /\ NotesOK
        /\ clusters' = clusters /\ rows' = rows /\ facts' = facts
    BY DEF CanonInv, Canonicalize, vars
  <1>0. PICK ns \in Assignments : \E P \in PrimaryChoices(ns) :
           /\ notes' = AttachAll(ns, P)
           /\ conflicts' = AddRows(NewConflicts(ns, P))
           /\ result' = [emitted   |-> Emitted(AttachAll(ns, P)),
                         primaries |-> P,
                         sems      |-> [k \in Listed |-> ns[k].sem]]
    BY DEF Canonicalize
  <1>2. PICK P \in PrimaryChoices(ns) :
           /\ notes' = AttachAll(ns, P)
           /\ conflicts' = AddRows(NewConflicts(ns, P))
           /\ result' = [emitted   |-> Emitted(AttachAll(ns, P)),
                         primaries |-> P,
                         sems      |-> [k \in Listed |-> ns[k].sem]]
    BY <1>0
  <1>3. PICK after : after = AttachAll(ns, P)
    OBVIOUS
  <1>4. PICK again : again = Reassigned(ns, after)
    OBVIOUS
  <1>5. Live' = Live /\ Listed' = Listed
    BY <1>1, SameClusters
  <1>6. P \subseteq Listed /\ Listed \subseteq Live
    BY <1>1, PrimaryFacts, ListedIn
  <1>7. after = [k \in Live |-> after[k]] /\ \A k \in Live \ Listed : after[k] = ns[k]
    BY <1>1, <1>3, AttachFacts
  <1>8. /\ ns = [k \in Live |-> ns[k]]
        /\ \A k \in Live \ Listed : ns[k] = notes[k]
        /\ \A k \in Listed : [role |-> ns[k].role, sem |-> ns[k].sem] \in Readings(k)
    BY <1>1, AssignmentFacts
  <1>9. ASSUME NEW k \in Live
        PROVE  NoteOK(after[k])
    <2>1. CASE k \in Listed
      BY <1>1, <1>3, <2>1, AfterNote
    <2>2. CASE k \notin Listed
      BY <1>1, <1>7, <1>8, <2>2 DEF NotesOK
    <2> QED BY <2>1, <2>2
  <1>10. NotesOK'
    <2>1. \A k \in Live : NoteOK(after[k])'
      BY <1>1, <1>9, SameClusters
    <2>2. \A k \in Live : NoteOK(notes[k])'
      BY <1>2, <1>3, <2>1 DEF NoteOK
    <2> QED BY <1>2, <1>3, <1>5, <1>7, <2>2 DEF NotesOK
  <1>11. ConflictsOK'
    BY <1>2, ConflictsCounted DEF Canonicalize
  <1>12. ASSUME NEW k \in Listed
         PROVE  /\ after[k].sem = ns[k].sem /\ after[k].label = notes[k].label
                /\ notes'[k].label = notes[k].label
    <2>1. after[k].sem = ns[k].sem /\ after[k].label = ns[k].label /\ NoteOK(ns[k])
      BY <1>1, <1>3, AfterNote
    <2>2. ns[k].label = notes[k].label
      <3>1. ns[k] = [notes[k] EXCEPT !.role = ns[k].role, !.sem = ns[k].sem]
        BY <1>1, AssignmentFacts
      <3>2. NoteOK(notes[k])
        BY <1>1, <1>6 DEF NotesOK
      <3> DEFINE n == notes[k]
                 m == ns[k]
                 x == ns[k].role
                 y == ns[k].sem
      <3>3. Rereads(m, n, x, y)
        BY <3>1 DEF Rereads
      <3>4. IsNote(n, n.label, n.role, n.sem, n.attachedTo, n.kind, n.attached, n.folded)
        BY <3>2, NoteIs
      <3> HIDE DEF m, n, x, y
      <3>5. IsNote(m, n.label, x, y, n.attachedTo, n.kind, n.attached, n.folded)
        BY <3>3, <3>4, Relabelled
      <3>6. m.label = n.label
        BY <3>5 DEF IsNote
      <3> QED BY <3>6 DEF m, n
    <2> QED BY <1>2, <1>3, <2>1, <2>2
  <1>13. \A k \in Listed : Readings(k)' = Readings(k)
    BY <1>1, <1>12, SameReadingsAfter
  <1>14. again \in Assignments'
    <2> DEFINE readings == [k \in Listed |-> Readings(k)]
               candidates == {p \in [Listed -> UNION Range(readings)] :
                                 \A k \in Listed : p[k] \in readings[k]}
               all == {Assigned(q) : q \in candidates}
    <2>0. PICK r : r = [k \in Listed |-> [role |-> ns[k].role, sem |-> ns[k].sem]]
      OBVIOUS
    <2>1. readings' = readings
      BY <1>5, <1>13
    <2>2. \A k \in Listed : r[k] \in readings[k]
      BY <1>8, <2>0
    <2>3. r \in candidates
      BY <2>0, <2>2 DEF Range
    <2>4. again = Assigned(r)'
      <3>1. \A k \in Listed : r[k].role = ns[k].role /\ r[k].sem = ns[k].sem
        BY <2>0
      <3>2. again = [k \in Live |->
                        IF k \in Listed
                        THEN [after[k] EXCEPT !.role = r[k].role, !.sem = r[k].sem]
                        ELSE after[k]]
        BY <1>4, <3>1 DEF Reassigned
      <3>3. notes' = after /\ DOMAIN after = Live
        BY <1>2, <1>3, <1>7
      <3> QED BY <1>5, <3>2, <3>3 DEF Assigned
    <2>5. candidates' = candidates
      <3> HIDE DEF readings
      <3> QED BY <1>5, <2>1 DEF Range
    <2>6. Assignments' = all'
      BY DEF Assignments
    <2>7. again \in all'
      <3> HIDE DEF candidates
      <3> QED BY <2>3, <2>4, <2>5
    <2> HIDE DEF all
    <2> QED BY <2>6, <2>7
  <1>15. P \in PrimaryChoices(again) /\ AttachAll(again, P) = after
    BY <1>1, <1>3, <1>4, RepeatedRun
  <1>16. /\ PrimaryChoices(again)' = PrimaryChoices(again)
         /\ AttachAll(again, P)' = AttachAll(again, P)
         /\ Emitted(after)' = Emitted(after)
    BY <1>1, SameClusters
  <1>17. LastRun'
    <2> DEFINE w == [k \in Listed |-> ns[k].sem]
    <2>1. w = [k \in Listed' |-> after[k].sem]
      BY <1>5, <1>12
    <2>2. result' = [emitted |-> Emitted(after)', primaries |-> P, sems |-> w]
      BY <1>2, <1>3, <1>16
    <2> HIDE DEF w
    <2>3. /\ P \in PrimaryChoices(again)'
          /\ after = AttachAll(again, P)' /\ notes' = after
          /\ result' = [emitted |-> Emitted(after)', primaries |-> P,
                        sems |-> [k \in Listed' |-> after[k].sem]]
      BY <1>2, <1>3, <1>15, <1>16, <2>1, <2>2
    <2> QED BY <1>14, <2>3 DEF LastRun
  <1> QED BY <1>10, <1>11, <1>12, <1>17

\* What may be assigned follows from the clusters, rows, texts and notes.
LEMMA SameAssignments ==
    ASSUME clusters' = clusters, rows' = rows, facts' = facts, notes' = notes
    PROVE  Assignments' = Assignments
  <1> DEFINE readings == [k \in Listed |-> Readings(k)]
             candidates == {p \in [Listed -> UNION Range(readings)] :
                               \A k \in Listed : p[k] \in readings[k]}
             all == {Assigned(q) : q \in candidates}
  <1>1. Listed' = Listed /\ \A k : Readings(k)' = Readings(k)
    BY SameClusters, SameReadingsAfter
  <1>2. readings' = readings
    BY <1>1
  <1>3. candidates' = candidates
    <2> HIDE DEF readings
    <2> QED BY <1>1, <1>2 DEF Range
  <1>4. \A q : Assigned(q)' = Assigned(q)
    BY <1>1 DEF Assigned
  <1>5. all' = all
    <2> HIDE DEF candidates
    <2> QED BY <1>3, <1>4
  <1>6. Assignments = all /\ Assignments' = all'
    BY DEF Assignments
  <1> HIDE DEF all
  <1> QED BY <1>5, <1>6

\* The note of a new cluster is well formed.
LEMMA NewNoteOK ==
    ASSUME NEW key
    PROVE  NoteOK(NewNote(key))
  BY DEF NoteOK, NewNote, Sem!ClusterRole

\* A step of the clusters keeps the notes of the clusters that stay.
LEMMA ClusterStepKept ==
    ASSUME CanonInv, ClusterStep
    PROVE  facts' = facts /\ NotesOK' /\ ConflictsOK' /\ LastRun'
  <1>1. /\ facts' = facts /\ conflicts' = conflicts /\ runs' = runs
        /\ notes' = [k \in DOMAIN clusters' |->
                       IF k \in DOMAIN notes THEN notes[k] ELSE NewNote(clusters'[k].key)]
        /\ result' = IF clusters' = clusters /\ rows' = rows THEN result ELSE None
    BY DEF ClusterStep
  <1>2. NotesOK /\ DOMAIN notes = Live
    BY DEF CanonInv, NotesOK
  <1>3. \A note : NoteOK(note)' <=> NoteOK(note)
    BY <1>1 DEF NoteOK
  <1>4. NotesOK'
    <2>1. Live' = DOMAIN clusters'
      BY DEF Live
    <2>2. \A k \in Live' : NoteOK(notes'[k])
      BY <1>1, <1>2, <2>1, NewNoteOK DEF NotesOK
    <2>3. \A k \in Live' : NoteOK(notes[k])'
      BY <1>1, <2>2 DEF NoteOK
    <2>4. notes' = [k \in Live' |-> notes'[k]]
      BY <1>1, <2>1
    <2> QED BY <2>3, <2>4 DEF NotesOK
  <1>5. ConflictsOK'
    BY <1>1 DEF CanonInv, ConflictsOK
  <1>6. LastRun'
    <2>1. CASE clusters' = clusters /\ rows' = rows
      <3>1. notes' = notes
        BY <1>1, <1>2, <2>1 DEF NotesOK, Live
      <3>2. Assignments' = Assignments /\ Listed' = Listed
        BY <1>1, <2>1, <3>1, SameAssignments, SameClusters
      <3>3. /\ \A ns : PrimaryChoices(ns)' = PrimaryChoices(ns)
            /\ \A ns, P : AttachAll(ns, P)' = AttachAll(ns, P)
            /\ \A ns : Emitted(ns)' = Emitted(ns)
        BY <1>1, <2>1, SameClusters
      <3>4. result' = result
        BY <1>1, <2>1
      <3> QED BY <3>1, <3>2, <3>3, <3>4 DEF CanonInv, LastRun
    <2>2. CASE ~ (clusters' = clusters /\ rows' = rows)
      BY <1>1, <2>2 DEF LastRun
    <2> QED BY <2>1, <2>2
  <1> QED BY <1>1, <1>4, <1>5, <1>6

\* The inductive invariant: what ClaimClusters_proofs shows of the clusters,
\* and that the notes are always those of the last run.
LEMMA CanonInvariant ==
    ASSUME Serial
    PROVE  CanonSpec => []CanonInv
  <1> DEFINE Rest == facts \in Texts /\ NotesOK /\ ConflictsOK /\ LastRun
             Base == TypeOK /\ OneClusterPerClaim
  <1>1. CanonInit => Rest
    BY RunsAssumption DEF CanonInit, Init, NotesOK, ConflictsOK, LastRun, Live
  <1>2. Base /\ Rest /\ [CanonNext]_allVars => Rest'
    <2> SUFFICES ASSUME Base, Rest, [CanonNext]_allVars
                 PROVE  Rest'
      OBVIOUS
    <2>1. CanonInv
      BY DEF CanonInv
    <2>2. CASE ClusterStep
      BY <2>1, <2>2, ClusterStepKept
    <2>3. ASSUME NEW s \in Sessions, Canonicalize(s)
          PROVE  Rest'
      <3>1. facts' = facts
        BY <2>3 DEF Canonicalize
      <3> QED BY <2>1, <2>3, <3>1, RunKept
    <2>4. CASE UNCHANGED allVars
      <3>1. /\ clusters' = clusters /\ rows' = rows /\ facts' = facts /\ notes' = notes
            /\ result' = result /\ conflicts' = conflicts /\ runs' = runs
        BY <2>4 DEF allVars
      <3>2. /\ Assignments' = Assignments /\ Listed' = Listed /\ Live' = Live
            /\ \A ns : PrimaryChoices(ns)' = PrimaryChoices(ns)
            /\ \A ns, P : AttachAll(ns, P)' = AttachAll(ns, P)
            /\ \A ns : Emitted(ns)' = Emitted(ns)
        BY <3>1, SameAssignments, SameClusters
      <3>3. LastRun'
        BY <3>1, <3>2 DEF LastRun
      <3>4. NotesOK'
        BY <3>1, <3>2 DEF NotesOK, NoteOK
      <3> QED BY <3>1, <3>3, <3>4 DEF ConflictsOK
    <2> QED BY <2>2, <2>3, <2>4 DEF CanonNext
  <1>3. CanonInit => Init
    BY DEF CanonInit
  <1>4. [CanonNext]_allVars => [Next]_vars
    BY DEF CanonNext, ClusterStep, Canonicalize, allVars, vars
  <1>5. Base /\ Rest => CanonInv
    BY DEF CanonInv
  <1>6. IInv => Base
    BY DEF IInv
  <1> HIDE DEF Rest, Base
  <1> QED BY <1>1, <1>2, <1>3, <1>4, <1>5, <1>6, InvariantHolds, PTL DEF CanonSpec, Spec

-----------------------------------------------------------------------------
(***************************************************************************)
(* What a reader should know                                               *)
(***************************************************************************)

\* Attributes belong to existing clusters; an attached cluster names what it
\* is attached to; no claim conflicts with itself, and a run stores a conflict
\* at most once.
THEOREM CanonTypeCorrect ==
    ASSUME Serial
    PROVE  CanonSpec => []CanonTypeOK
  <1>1. CanonInv => CanonTypeOK
    <2> SUFFICES ASSUME CanonInv PROVE CanonTypeOK
      OBVIOUS
    <2>1. DOMAIN notes = Live /\ \A k \in Live : NoteOK(notes[k])
      BY DEF CanonInv, NotesOK
    <2>2. \A row \in DOMAIN conflicts : row[1] # row[2] /\ conflicts[row] \in 1..MaxRuns
      BY RunsAssumption DEF CanonInv, ConflictsOK
    <2> QED BY <2>1, <2>2 DEF CanonTypeOK, NoteOK
  <1> QED BY <1>1, CanonInvariant, PTL

\* After a run each action domain emits its one primary, unless it is locked,
\* and nothing else: for any clusters, texts and orders of the database.
THEOREM EmissionsAreUnique ==
    ASSUME Serial, NoUnknownAction
    PROVE  CanonSpec => []OneEmissionPerDomain
  <1> QED BY EmissionHolds, CanonInvariant, PTL

\* After a run no evidence is lost behind a second attachment.
THEOREM AttachmentsAreDirect ==
    ASSUME Serial, NoUnknownAction
    PROVE  CanonSpec => []AttachmentsReachPrimary
  <1> QED BY AttachmentsHold, CanonInvariant, PTL

\* A primary keeps its outdated claims as superseded evidence.
THEOREM OutdatedIsKept ==
    ASSUME Serial
    PROVE  CanonSpec => []OutdatedStaysEvidence
  <1> QED BY EvidenceHolds, CanonInvariant, PTL

\* Running again on its own output changes nothing.
THEOREM RerunIsStable ==
    ASSUME Serial
    PROVE  CanonSpec => RerunStable
  <1> DEFINE Stable ==
          (/\ result # None /\ result' # None /\ runs' # runs
           /\ result'.sems = result.sems /\ result'.primaries = result.primaries)
             => notes' = notes /\ result' = result
  <1>1. CanonInv /\ [CanonNext]_allVars => [Stable]_allVars
    <2> SUFFICES ASSUME CanonInv, CanonNext,
                        result # None, result' # None, runs' # runs,
                        result'.sems = result.sems, result'.primaries = result.primaries
                 PROVE  notes' = notes /\ result' = result
      BY DEF allVars
    <2>1. PICK s \in Sessions : Canonicalize(s)
      BY DEF CanonNext, ClusterStep
    <2>2. PICK ns \in Assignments : \E P \in PrimaryChoices(ns) :
              /\ notes' = AttachAll(ns, P)
              /\ result' = [emitted   |-> Emitted(AttachAll(ns, P)),
                            primaries |-> P,
                            sems      |-> [k \in Listed |-> ns[k].sem]]
      BY <2>1 DEF Canonicalize
    <2>3. PICK P \in PrimaryChoices(ns) :
              /\ notes' = AttachAll(ns, P)
              /\ result' = [emitted   |-> Emitted(AttachAll(ns, P)),
                            primaries |-> P,
                            sems      |-> [k \in Listed |-> ns[k].sem]]
      BY <2>2
    <2> DEFINE e == Emitted(AttachAll(ns, P))
               w == [k \in Listed |-> ns[k].sem]
    <2>4. result' = [emitted |-> e, primaries |-> P, sems |-> w]
      BY <2>3
    <2> HIDE DEF e, w
    <2>5. result.primaries = P /\ result.sems = w
      BY <2>4
    <2>6. /\ AttachAll(ns, P) = notes
          /\ result = [emitted |-> e, primaries |-> P, sems |-> w]
      <3>1. result.primaries \in PrimaryChoices(ns)
        BY <2>5
      <3> QED BY <2>5, <3>1, SameRun DEF e, w
    <2> QED BY <2>3, <2>4, <2>6
  <1>2. RerunStable <=> [][Stable]_allVars
    BY DEF RerunStable
  <1> HIDE DEF Stable
  <1> QED BY <1>1, <1>2, CanonInvariant, PTL DEF CanonSpec
=============================================================================
