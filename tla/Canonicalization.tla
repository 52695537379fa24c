-------------------------- MODULE Canonicalization --------------------------
(***************************************************************************)
(* assign_and_canonicalize_clusters (claims/clustering/canonicalize.py and *)
(* cluster_attachments.py) on the clusters that ClaimClusters forms,       *)
(* locks, merges and splits: each action domain gets one primary cluster,  *)
(* the others are attached to it, and the run returns the clusters that    *)
(* may become rules.                                                       *)
(*                                                                         *)
(* A run reads and writes in one transaction; it is one step here, and     *)
(* starts from the roles and attachments the previous run left.  What the  *)
(* code leaves to the database -- the order of the claims of a cluster,    *)
(* and of clusters with equal scores -- is any order.                       *)
(***************************************************************************)
EXTENDS ClaimClusters, Sequences, SequencesExt, TLC

CONSTANTS
    Texts,      \* the texts the claims may have, one of [claim -> text] per behavior
    MaxRuns     \* bound on the canonicalization runs

VARIABLES
    facts,      \* claim -> what its text says (ClaimSemantics); never changes
    notes,      \* cluster -> label, cluster_role and attributes_json
    conflicts,  \* rule_conflicts: <<claim, claim, kind>> -> number of rows
    result,     \* the last run, until clusters or memberships change
    runs

Sem(Facts) == INSTANCE ClaimSemantics

allVars == <<clusters, rows, traces, pend, edits, facts, notes, conflicts, result, runs>>

Kinds == {"exception", "supporting", "superseded", "contradiction"}

ASSUME TextsAssumption == \A texts \in Texts, c \in Claims : texts[c].confidence \in Int

ASSUME RunsAssumption == MaxRuns \in Nat /\ None \notin Kinds \cup {"unknown"}

ASSUME TablesAreFinite == IsFiniteSet(Claims) /\ IsFiniteSet(Clusters)

\* "unknown" is the domain of the clusters without a family (_domain_key).  That
\* no claim has this word for its action, so that the clusters of one domain
\* have one family, the code does not check.
NoUnknownAction ==
    \A texts \in Texts, c \in Claims : texts[c].action # <<>> => texts[c].action[1] # "unknown"

CanonInit ==
    /\ Init /\ facts \in Texts
    /\ notes = <<>> /\ conflicts = <<>> /\ result = None /\ runs = 0

-----------------------------------------------------------------------------
(***************************************************************************)
(* Roles and domains                                                       *)
(***************************************************************************)

\* The clusters of a run; a merged one is excluded.
Listed == {k \in Live : clusters[k].status # "MERGED"}

FamilyFromLabel(label) ==
    IF "delet" \in label THEN "delete"
    ELSE IF "expir" \in label THEN "expire"
    ELSE IF label \cap {"approv", "threshold"} # {} THEN "approve"
    ELSE IF "policy" \in label THEN "expire" ELSE None

\* The semantics of a cluster, its family taken from the label when no claim
\* names an action.
Prepared(k, order) ==
    LET sem == Sem(facts)!ClusterSemantics(order)
    IN  IF sem.family # None THEN sem
        ELSE [sem EXCEPT !.family = FamilyFromLabel(notes[k].label)]

Domain(sem) == IF sem.family = None THEN "unknown" ELSE sem.family

Secondary ==
    {"implementation_detail", "superseded", "exception", "supporting_evidence",
     "contradiction"}

EmittableRoles == {"canonical_rule", "review_required"}

\* What a run may make of a cluster, by the order the query returns its claims in.
Readings(k) ==
    {[role |-> Sem(facts)!AssignRole(order), sem |-> Prepared(k, order)] : order \in SetToSeqs(ClaimsOf(k))}

\* Pass 1: roles and semantics are assigned anew, all else is kept.
Assigned(reading) ==
    [k \in DOMAIN notes |->
        IF k \in Listed THEN [notes[k] EXCEPT !.role = reading[k].role, !.sem = reading[k].sem]
        ELSE notes[k]]

Assignments ==
    LET readings == [k \in Listed |-> Readings(k)]
    IN  {Assigned(reading) :
            reading \in {r \in [Listed -> UNION Range(readings)] : \A k \in Listed : r[k] \in readings[k]}}

RankKey(ns, k) ==
    <<IF ns[k].role = "canonical_rule" THEN 1 ELSE 0,
      Sem(facts)!ScoreAuthority(ClaimsOf(k), ns[k].sem)>>

Below(x, y) == x[1] < y[1] \/ (x[1] = y[1] /\ x[2] < y[2])

\* Can lead its domain.
Able(ns) == {k \in Listed : ns[k].role \notin Secondary}

SameDomain(ns, k, l) == Domain(ns[k].sem) = Domain(ns[l].sem)

\* _rank_domain and _select_primary: in each domain, one of the clusters of
\* the highest rank among those that can lead it.
PrimaryChoices(ns) ==
    LET key  == [k \in Able(ns) |-> RankKey(ns, k)]
        best == {k \in Able(ns) : \A l \in Able(ns) : SameDomain(ns, k, l) => ~Below(key[k], key[l])}
    IN  {primaries \in SUBSET best :
            \A k \in best : Cardinality({p \in primaries : SameDomain(ns, k, p)}) = 1}

\* The primary a cluster that is not one itself is compared with.
PrimaryOf(ns, primaries, k) ==
    LET found == {p \in primaries \ {k} : k \notin primaries /\ SameDomain(ns, k, p)}
    IN  IF found = {} THEN None ELSE CHOOSE p \in found : TRUE

-----------------------------------------------------------------------------
(***************************************************************************)
(* Attachments                                                             *)
(***************************************************************************)

Outdated(c) == Sem(facts)!AuthorityStatus(facts[c]) = "superseded"

\* _finalize_primary: the primary is attached to nothing.  The kind of an
\* attachment it had before stays in its attributes.
UnattachedNever(note) == note
Unattached(note) == [note EXCEPT !.attachedTo = None]

\* Outdated claims among current ones are listed on the primary.
MixedIn(k) ==
    LET old == {c \in ClaimsOf(k) : Outdated(c)}
    IN  IF old = ClaimsOf(k) THEN {} ELSE old

IsSupersededSecondary(note, primary) ==
    \/ note.role = "superseded"
    \/ note.sem.authority = "superseded"
    \/ /\ note.sem.timing # None /\ primary.sem.timing # None
       /\ note.sem.timing # primary.sem.timing
       /\ note.sem.family = primary.sem.family

IsExceptionSecondary(note, primary) ==
    \/ note.role = "exception"
    \/ /\ note.sem.exception
       /\ note.sem.family = primary.sem.family
       /\ note.role # "canonical_rule"

\* What a cluster that is not the primary becomes relative to it; None leaves
\* it alone.
AttachmentIfAgreeing(note, primary) ==
    IF note.role = "implementation_detail" THEN None
    ELSE IF IsSupersededSecondary(note, primary) THEN "superseded"
    ELSE IF IsExceptionSecondary(note, primary) THEN "exception"
    ELSE IF ~Sem(facts)!FactsConflict(primary.sem, note.sem) THEN "supporting" ELSE None
Attachment(note, primary) ==
    IF note.role = "implementation_detail" THEN None
    ELSE IF IsSupersededSecondary(note, primary) THEN "superseded"
    ELSE IF IsExceptionSecondary(note, primary) THEN "exception"
    ELSE IF \/ Sem(facts)!IdentityKey(note.sem) = Sem(facts)!IdentityKey(primary.sem)
            \/ /\ note.sem.family = primary.sem.family
               /\ ~Sem(facts)!FactsConflict(primary.sem, note.sem)
         THEN "supporting"
    ELSE IF note.sem.family = primary.sem.family THEN "contradiction" ELSE None

\* The kind of attachment a run gives a cluster.
KindOf(ns, primaries, k) ==
    LET p == PrimaryOf(ns, primaries, k)
    IN  IF p = None THEN None ELSE Attachment(ns[k], ns[p])

RoleOf(kind) == IF kind = "supporting" THEN "supporting_evidence" ELSE kind

\* attach_cluster: the cluster names its primary ...
AttachedWithoutKind(note, p, kind) == [note EXCEPT !.role = RoleOf(kind), !.attachedTo = p]
Attached(note, p, kind) ==
    [note EXCEPT !.role = RoleOf(kind), !.attachedTo = p, !.kind = kind]

\* ... which lists it, and takes over its claims when it is an exception or
\* supports it.
Leading(note, p, joined) ==
    [Unattached(note) EXCEPT
        !.attached = [kind \in Kinds |-> @[kind] \cup joined[kind]],
        !.folded = [kind \in Kinds |->
                       @[kind] \cup
                       (CASE kind \in {"exception", "supporting"} -> UNION {ClaimsOf(k) : k \in joined[kind]}
                          [] kind = "superseded" -> MixedIn(p)
                          [] OTHER -> {})]]

AttachAll(ns, primaries) ==
    LET kind    == [k \in Listed |-> KindOf(ns, primaries, k)]
        joining == [p \in primaries |->
                       [i \in Kinds |-> {k \in Listed : kind[k] = i /\ SameDomain(ns, k, p)}]]
    IN  [k \in DOMAIN ns |->
            IF k \in primaries THEN Leading(ns[k], k, joining[k])
            ELSE IF k \notin Listed \/ kind[k] = None THEN ns[k]
            ELSE Attached(ns[k], PrimaryOf(ns, primaries, k), kind[k])]

\* _persist_supersession_conflicts for one pair: a row unless the pair neither
\* conflicts nor shares a family.
ConflictRows(as, bs) ==
    LET hit(a, b) == Sem(facts)!ClassifyPair(a, b)
    IN  {<<pair[1], pair[2],
           IF hit(pair[1], pair[2]) = "contradiction" THEN "contradiction" ELSE "supersession">> :
            pair \in {q \in as \X bs :
                \/ hit(q[1], q[2]) # None
                \/ Sem(facts)!ActionFamily(facts[q[1]]) = Sem(facts)!ActionFamily(facts[q[2]])}}

NewConflicts(ns, primaries) ==
    (UNION {ConflictRows(ClaimsOf(p) \ MixedIn(p), MixedIn(p)) : p \in primaries})
    \cup
    (UNION {ConflictRows(ClaimsOf(PrimaryOf(ns, primaries, k)), ClaimsOf(k)) :
               k \in {l \in Listed : KindOf(ns, primaries, l) = "superseded"}})

-----------------------------------------------------------------------------
(***************************************************************************)
(* The run                                                                 *)
(***************************************************************************)

\* _compute_emission_set
EmittedBefore(ns) ==
    {k \in Listed : ns[k].role \in EmittableRoles /\ notes[k].attachedTo = None /\ ~Locked(k)}
Emitted(ns) ==
    {k \in Listed :
        /\ ns[k].role \in EmittableRoles
        /\ ns[k].attachedTo = None
        /\ ~Locked(k)
        /\ ns[k].role = "review_required" =>
               \A l \in Listed : ns[l].role = "canonical_rule" => ~SameDomain(ns, k, l)
        /\ ns[k].sem.authority # "superseded"}

AddRows(more) ==
    [row \in DOMAIN conflicts \cup more |->
        (IF row \in DOMAIN conflicts THEN conflicts[row] ELSE 0)
            + (IF row \in more THEN 1 ELSE 0)]

Canonicalize(s) ==
    /\ Idle(s) /\ runs < MaxRuns /\ runs' = runs + 1
    /\ Listed # {}
    /\ \E ns \in Assignments :
       \E primaries \in PrimaryChoices(ns) :
           /\ notes' = AttachAll(ns, primaries)
           /\ conflicts' = AddRows(NewConflicts(ns, primaries))
           /\ result' = [emitted   |-> Emitted(AttachAll(ns, primaries)),
                         primaries |-> primaries,
                         sems      |-> [k \in Listed |-> ns[k].sem]]
    /\ UNCHANGED <<vars, facts>>

\* The note of a new cluster: the label of its first claim, or of the cluster
\* it is split from.
NewNote(key) ==
    [label |-> IF key.kind = "split" THEN notes[key.from].label
               ELSE LET f == facts[CHOOSE c \in key.ids : \A d \in key.ids : c <= d]
                    IN  IF f.subject # <<>> THEN Sem(facts)!Range(f.subject) ELSE f.text,
     role |-> "review_required", sem |-> Sem(facts)!NoSemantics,
     attachedTo |-> None, kind |-> None,
     attached |-> [kind \in Kinds |-> {}], folded |-> [kind \in Kinds |-> {}]]

\* Identifiers the attributes still mention are not reused.
Mentioned ==
    UNION {{notes[k].attachedTo} \cup UNION {notes[k].attached[i] : i \in Kinds} :
              k \in DOMAIN notes}

\* A step of the clusters: an attribute goes with its cluster only.
ClusterStep ==
    /\ Next
    /\ (DOMAIN clusters' \ Live) \cap Mentioned = {}
    /\ notes' = [k \in DOMAIN clusters' |->
                    IF k \in DOMAIN notes THEN notes[k] ELSE NewNote(clusters'[k].key)]
    /\ result' = IF clusters' = clusters /\ rows' = rows THEN result ELSE None
    /\ UNCHANGED <<facts, conflicts, runs>>

CanonNext == ClusterStep \/ \E s \in Sessions : Canonicalize(s)

CanonSpec == CanonInit /\ [][CanonNext]_allVars

-----------------------------------------------------------------------------
(***************************************************************************)
(* Properties                                                              *)
(***************************************************************************)

\* Attributes belong to existing clusters, and an attached cluster says how it
\* is attached.  (The converse does not hold: the kind outlives the attachment
\* of a cluster that leads its domain again.)
CanonTypeOK ==
    /\ DOMAIN notes = Live
    /\ \A k \in Live :
          /\ notes[k].role \in Sem(facts)!ClusterRole
          /\ notes[k].attachedTo \in Clusters \cup {None}
          /\ notes[k].attachedTo # None => notes[k].kind \in Kinds
    /\ \A row \in DOMAIN conflicts : row[1] # row[2] /\ conflicts[row] \in 1..MaxRuns

\* "Return emission set": a run emits, for each action domain, its primary
\* unless that is locked, and nothing else -- though the primary may have been
\* attached to another cluster by an earlier run.
OneEmissionPerDomain ==
    result # None =>
        /\ result.emitted = {k \in result.primaries : ~Locked(k)}
        /\ \A k, l \in result.emitted :
               Domain(notes[k].sem) = Domain(notes[l].sem) => k = l

\* After a run every other cluster of a domain with a primary, details of the
\* implementation excepted, is attached to that primary, which lists it and is
\* itself attached to nothing: no evidence is lost behind a second attachment.
AttachmentsReachPrimary ==
    result # None =>
        \A k \in Listed, p \in result.primaries :
            /\ k # p
            /\ Domain(notes[k].sem) = Domain(notes[p].sem)
            /\ notes[k].role # "implementation_detail"
            => /\ notes[k].attachedTo = p
               /\ k \in notes[p].attached[notes[k].kind]
               /\ notes[p].attachedTo = None

\* "Outdated/legacy; retained as superseded evidence rather than an active
\* rule": every outdated claim of a primary is listed on it as superseded
\* evidence, so a cluster with nothing but outdated claims leads no domain.
OutdatedStaysEvidence ==
    result # None =>
        \A p \in result.primaries : \A c \in ClaimsOf(p) :
            Outdated(c) => c \in notes[p].folded["superseded"]

\* Running again on its own output changes no attribute and emits the same,
\* when the database returns the rows in an order that leads to the same
\* semantics and primaries.  (It stores every
\* conflict once more, see conflicts.)
RerunStable ==
    [][(/\ result # None /\ result' # None /\ runs' # runs
        /\ result'.sems = result.sems /\ result'.primaries = result.primaries)
           => notes' = notes /\ result' = result]_allVars
=============================================================================
