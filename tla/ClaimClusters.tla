---------------------------- MODULE ClaimClusters ----------------------------
(***************************************************************************)
(* The claim clusters of one analysis version: the tables claim_clusters,  *)
(* claim_cluster_memberships and the cluster references of                 *)
(* ai_investigation_traces (persistence/models), and the operations of     *)
(* claims/clustering/cluster_service.py on them.                           *)
(*                                                                         *)
(* An operation runs in a database session.  Forming, merging and          *)
(* splitting first READ rows and check their guards, and later COMMIT      *)
(* writes computed from what they read; other sessions commit in between   *)
(* (READ COMMITTED, no row is locked by the read).  A commit is refused --  *)
(* everything is rolled back and the caller gets an exception -- when a    *)
(* foreign key or unique constraint forbids it or a row it updates is      *)
(* gone.  Locking and unlocking write blindly, so each is one step.  The   *)
(* audit event these operations record after their commit touches no       *)
(* cluster table and is left out.                                          *)
(***************************************************************************)
EXTENDS Integers, FiniteSets

CONSTANTS
    Claims,     \* the source claims of the analysis version
    Clusters,   \* cluster identifiers
    Sessions,   \* sessions that run the operations
    MaxEdits,   \* bound on the locks, unlocks, merges, splits and traces together
    Chunking,   \* [SUBSET Claims -> sets of chunks]: what ClaimGrouping!Chunks computes
    None        \* NULL

\* What the operations need of the grouping: the chunks of a set of claims
\* partition it into non-empty sets.
ASSUME ChunkingAssumption ==
    /\ Chunking \in [SUBSET Claims -> SUBSET SUBSET Claims]
    /\ \A active \in SUBSET Claims :
           /\ UNION Chunking[active] = active
           /\ {} \notin Chunking[active]
           /\ \A b1, b2 \in Chunking[active] : b1 # b2 => b1 \cap b2 = {}

ASSUME NoneAssumption == None \notin Clusters

ASSUME MaxEditsAssumption == MaxEdits \in Nat

VARIABLES
    clusters,   \* claim_clusters: id -> [status, locked, key, parent]
    rows,       \* claim_cluster_memberships: row -> the cluster it is in now;
                \*   a row is named <<claim, the cluster it was created in>>
    traces,     \* the clusters an ai_investigation_traces row refers to
    pend,       \* per session: the operation between its read and its commit
    edits       \* how many edits were begun (bounded by MaxEdits)

vars == <<clusters, rows, traces, pend, edits>>

Status == {"CANDIDATE", "NEEDS_REVIEW", "LOCKED", "MERGED", "SPLIT"}

\* canonical_key: a hash of the sorted claim ids of a formed chunk, or of the
\* source and the requested ids of a split.
Key == [kind : {"formed"}, ids : SUBSET Claims]
           \cup [kind : {"split"}, from : Clusters, ids : SUBSET Claims]

ClusterRow ==
    [status : Status, locked : BOOLEAN, key : Key, parent : Clusters \cup {None}]

RowId == Claims \X Clusters

Pending ==
    [op : {"idle"}]
        \cup [op : {"form"}, removable : SUBSET Clusters, active : SUBSET Claims]
        \cup [op : {"merge"}, target : Clusters, source : Clusters,
              moved : SUBSET RowId, dropped : SUBSET RowId]
        \cup [op : {"split"}, source : Clusters, ids : SUBSET Claims,
              moved : SUBSET RowId]

-----------------------------------------------------------------------------

Live == DOMAIN clusters

Locked(k) == clusters[k].locked

RowsOf(k) == {r \in DOMAIN rows : rows[r] = k}

ClaimsOf(k) == {r[1] : r \in RowsOf(k)}

\* uuid4 never returns an identifier that is still mentioned anywhere; one
\* that nothing mentions any more is as good as new.
Fresh ==
    Clusters \ (Live \cup {r[2] : r \in DOMAIN rows}
                \cup {clusters[k].key.from :
                          k \in {l \in Live : clusters[l].key.kind = "split"}}
                \cup (UNION {pend[s].removable : s \in {t \in Sessions : pend[t].op = "form"}})
                \cup {pend[s].target : s \in {t \in Sessions : pend[t].op = "merge"}}
                \cup {pend[s].source : s \in {t \in Sessions : pend[t].op \in {"merge", "split"}}})

Idle(s) == pend[s].op = "idle"

Begin(s, plan) == pend' = [pend EXCEPT ![s] = plan]

End(s) == pend' = [pend EXCEPT ![s] = [op |-> "idle"]]

\* Counts an edit; forming is not counted.
Edit == edits < MaxEdits /\ edits' = edits + 1

Init ==
    /\ clusters = <<>>
    /\ rows = <<>>
    /\ traces = {}
    /\ pend = [s \in Sessions |-> [op |-> "idle"]]
    /\ edits = 0

-----------------------------------------------------------------------------
(***************************************************************************)
(* form_clusters                                                           *)
(***************************************************************************)

\* Locked clusters and clusters cited by a trace are preserved, with their
\* claims; every other cluster is to be removed.
PreservedTracedOnly == Live \cap traces
Preserved == {k \in Live : Locked(k) \/ k \in traces}

\* The claims to regroup.
ActiveUnclustered(preserved) == Claims \ UNION {ClaimsOf(k) : k \in Live}
Active(preserved) == Claims \ UNION {ClaimsOf(k) : k \in preserved}

FormRead(s) ==
    /\ Idle(s)
    /\ Begin(s, [op        |-> "form",
                 removable |-> Live \ Preserved,
                 active    |-> Active(Preserved)])
    /\ UNCHANGED <<clusters, rows, traces, edits>>

\* A cluster is still referred to by a row the operation does not delete.
ReferencedByChild(removed) == \E k \in Live \ removed : clusters[k].parent \in removed
Referenced(removed) ==
    \/ removed \cap traces # {}
    \/ \E k \in Live \ removed : clusters[k].parent \in removed

\* The clusters are deleted one statement at a time in primary-key order, and
\* uuids are random: a parent may come before its child, which is refused, or
\* after it, which is not.
ChildMayComeLast(removed) ==
    \E k, l \in removed : k # l /\ clusters[k].parent = l

FormedKey(chunk) == [kind |-> "formed", ids |-> chunk]

KeyTaken(kept, key) == \E k \in kept : clusters[k].key = key

FormRefused(removed, chunks) ==
    \/ Referenced(removed)
    \/ \E b \in chunks : KeyTaken(Live \ removed, FormedKey(b))

\* The memberships _reset_unlocked_clusters leaves.
SurvivingAll(removed) == DOMAIN rows
SurvivingRows(removed) == {r \in DOMAIN rows : rows[r] \notin removed}

Injections(S, T) == {f \in [S -> T] : \A x, y \in S : f[x] = f[y] => x = y}

\* _reset_unlocked_clusters, then one _persist_cluster_for_chunk per chunk,
\* then the commit.  A cluster that another session removed meanwhile is
\* skipped: deleting no row is only a warning.
FormCommit(s) ==
    /\ pend[s].op = "form"
    /\ LET removed == pend[s].removable \cap Live
           chunks  == Chunking[pend[s].active]
           kept    == SurvivingRows(removed)
       IN  /\ ~FormRefused(removed, chunks)
           /\ \E id \in Injections(chunks, Fresh) :
                 LET created == {id[b] : b \in chunks}
                     joined  == {r \in RowId : \E b \in chunks : r[1] \in b /\ r[2] = id[b]}
                 IN  /\ clusters' =
                           [k \in (Live \ removed) \cup created |->
                               IF k \in Live THEN clusters[k]
                               ELSE [status |-> "CANDIDATE", locked |-> FALSE,
                                     key |-> FormedKey(CHOOSE b \in chunks : id[b] = k),
                                     parent |-> None]]
                     /\ rows' = [r \in kept \cup joined |->
                                    IF r \in kept THEN rows[r] ELSE r[2]]
    /\ End(s)
    /\ UNCHANGED <<traces, edits>>

FormAbort(s) ==
    /\ pend[s].op = "form"
    /\ LET removed == pend[s].removable \cap Live
       IN  \/ FormRefused(removed, Chunking[pend[s].active])
           \/ ChildMayComeLast(removed)
    /\ End(s)
    /\ UNCHANGED <<clusters, rows, traces, edits>>

-----------------------------------------------------------------------------
(***************************************************************************)
(* lock_cluster, unlock_cluster: neither looks at the cluster's status.    *)
(***************************************************************************)

LockCluster(s, k) ==
    /\ Idle(s) /\ Edit /\ k \in Live
    /\ clusters' = [clusters EXCEPT ![k] = [@ EXCEPT !.locked = TRUE, !.status = "LOCKED"]]
    /\ UNCHANGED <<rows, traces, pend>>

UnlockCluster(s, k) ==
    /\ Idle(s) /\ Edit /\ k \in Live
    /\ clusters' = [clusters EXCEPT ![k] = [@ EXCEPT !.locked = FALSE, !.status = "NEEDS_REVIEW"]]
    /\ UNCHANGED <<rows, traces, pend>>

-----------------------------------------------------------------------------
(***************************************************************************)
(* merge_clusters: the source's rows move to the target, except that a row *)
(* whose claim the target already has is deleted.  Nothing forbids         *)
(* target = source, or a target that is itself MERGED.                     *)
(***************************************************************************)

MergeableTargetOnly(t, k) == ~Locked(t)
Mergeable(t, k) == ~Locked(t) /\ ~Locked(k)

MergeRead(s, t, k) ==
    /\ Idle(s) /\ Edit /\ t \in Live /\ k \in Live
    /\ Mergeable(t, k)
    /\ Begin(s, [op |-> "merge", target |-> t, source |-> k,
                 moved   |-> {r \in RowsOf(k) : r[1] \notin ClaimsOf(t)},
                 dropped |-> {r \in RowsOf(k) : r[1] \in ClaimsOf(t)}])
    /\ UNCHANGED <<clusters, rows, traces>>

\* The update of a vanished row, a dangling parent, or a second row for a
\* claim in the target (uq_cluster_membership) is refused.
MergeRefused(p) ==
    \/ ~({p.target, p.source} \subseteq Live)
    \/ ~(p.moved \subseteq DOMAIN rows)
    \/ \E r \in p.moved, q \in RowsOf(p.target) \ (p.moved \cup p.dropped) : r[1] = q[1]

MergeCommit(s) ==
    LET p == pend[s]
    IN  /\ p.op = "merge"
        /\ ~MergeRefused(p)
        /\ rows' = [r \in DOMAIN rows \ p.dropped |->
                       IF r \in p.moved THEN p.target ELSE rows[r]]
        /\ clusters' = [clusters EXCEPT ![p.source] =
                            [@ EXCEPT !.status = "MERGED", !.parent = p.target]]
        /\ End(s)
        /\ UNCHANGED <<traces, edits>>

MergeAbort(s) ==
    /\ pend[s].op = "merge"
    /\ MergeRefused(pend[s])
    /\ End(s)
    /\ UNCHANGED <<clusters, rows, traces, edits>>

-----------------------------------------------------------------------------
(***************************************************************************)
(* split_cluster: the rows of the requested claims move to a new cluster.  *)
(***************************************************************************)

SplittableAny(k) == TRUE
Splittable(k) == ~Locked(k)

SplitRead(s, k, ids) ==
    LET part == {r \in RowsOf(k) : r[1] \in ids}
    IN  /\ Idle(s) /\ Edit /\ k \in Live
        /\ Splittable(k)
        /\ part # {}
        /\ Begin(s, [op |-> "split", source |-> k, ids |-> ids, moved |-> part])
        /\ UNCHANGED <<clusters, rows, traces>>

SplitKey(p) == [kind |-> "split", from |-> p.source, ids |-> p.ids]

SplitRefused(p) ==
    \/ p.source \notin Live
    \/ ~(p.moved \subseteq DOMAIN rows)
    \/ KeyTaken(Live, SplitKey(p))

SplitCommit(s) ==
    LET p == pend[s]
    IN  /\ p.op = "split"
        /\ ~SplitRefused(p)
        /\ \E n \in Fresh :
              /\ clusters' = [k \in Live \cup {n} |->
                                 IF k \in Live THEN clusters[k]
                                 ELSE [status |-> "SPLIT", locked |-> FALSE,
                                       key |-> SplitKey(p), parent |-> p.source]]
              /\ rows' = [r \in DOMAIN rows |-> IF r \in p.moved THEN n ELSE rows[r]]
        /\ End(s)
        /\ UNCHANGED <<traces, edits>>

SplitAbort(s) ==
    /\ pend[s].op = "split"
    /\ SplitRefused(pend[s])
    /\ End(s)
    /\ UNCHANGED <<clusters, rows, traces, edits>>

-----------------------------------------------------------------------------
(***************************************************************************)
(* An investigation worker, outside these packages, records a trace that   *)
(* cites a cluster; it does so in a session of its own, at any time.       *)
(***************************************************************************)

RecordTrace(k) ==
    /\ Edit
    /\ k \in Live \ traces
    /\ traces' = traces \cup {k}
    /\ UNCHANGED <<clusters, rows, pend>>

-----------------------------------------------------------------------------

Next ==
    \/ \E s \in Sessions :
          \/ FormRead(s) \/ FormCommit(s) \/ FormAbort(s)
          \/ \E k \in Clusters : LockCluster(s, k) \/ UnlockCluster(s, k)
          \/ \E t, k \in Clusters : MergeRead(s, t, k)
          \/ MergeCommit(s) \/ MergeAbort(s)
          \/ \E k \in Clusters, ids \in SUBSET Claims : SplitRead(s, k, ids)
          \/ SplitCommit(s) \/ SplitAbort(s)
    \/ \E k \in Clusters : RecordTrace(k)

Spec == Init /\ [][Next]_vars

-----------------------------------------------------------------------------
(***************************************************************************)
(* Properties                                                              *)
(***************************************************************************)

\* Rows name existing clusters, and the columns have their types.
TypeOK ==
    /\ Live \subseteq Clusters
    /\ \A k \in Live : clusters[k] \in ClusterRow
    /\ DOMAIN rows \subseteq RowId
    /\ \A r \in DOMAIN rows : rows[r] \in Live
    /\ traces \subseteq Live
    /\ pend \in [Sessions -> Pending]
    /\ edits \in 0..MaxEdits

\* A claim is a member of at most one cluster: forming moves nothing that a
\* preserved cluster holds, and merges and splits move rows, never copy them
\* (the table's unique constraint only forbids a second row in the SAME
\* cluster).  Holds as long as the operations of the version do not overlap.
OneClusterPerClaim ==
    \A q, r \in DOMAIN rows : q[1] = r[1] => q = r

\* "Preserve human-locked clusters": as long as a cluster is locked it exists
\* and its members are neither taken away nor joined by others, whatever is
\* formed, merged or split around it (form_clusters, the guards of
\* merge_clusters and split_cluster).
LockedStayPut ==
    \A k \in Live : Locked(k) => k \in DOMAIN clusters' /\ RowsOf(k)' = RowsOf(k)

LockedClustersPreserved == [][LockedStayPut]_vars

\* A re-form leaves no claim of the version without a cluster, the members of
\* preserved clusters included (the active set and the preserved set of
\* form_clusters complement each other).
FormCoversEveryClaim ==
    [][\A s \in Sessions : FormCommit(s) => \A c \in Claims : \E r \in (DOMAIN rows)' : r[1] = c]_vars

\* "Clusters cited by completed AI work ... are historical evidence": a cluster
\* that a trace cites is never deleted, though a trace may be recorded, or a
\* cluster change, after a form in another session has chosen what to remove.
CitedClustersSurvive ==
    [][traces \subseteq traces' /\ traces' \subseteq DOMAIN clusters']_vars

\* is_locked and status = LOCKED are written together and read apart
\* (form_clusters reads the flag, reviewers see the status).
LockedStatusAgrees ==
    \A k \in Live : Locked(k) <=> clusters[k].status = "LOCKED"

\* The comment in _reset_unlocked_clusters says the removals are ordered "so
\* PostgreSQL FK enforcement sees the dependent rows gone first": a re-form
\* is not refused because a kept cluster still names a removed one as its
\* parent.
ReformSeesDependentsGone ==
    [][\A s \in Sessions :
           FormAbort(s) =>
               \A k \in Live : clusters[k].parent \in pend[s].removable
                                  => k \in pend[s].removable]_vars

-----------------------------------------------------------------------------
(***************************************************************************)
(* What the clusters promise: an assignment of claims to clusters, some of *)
(* which are pinned (ClaimAssignment).                                     *)
(***************************************************************************)

assign ==
    [c \in Claims |-> IF \E r \in DOMAIN rows : r[1] = c
                      THEN rows[CHOOSE r \in DOMAIN rows : r[1] = c]
                      ELSE None]

pinned == {k \in Live : Locked(k)}

Assignment == INSTANCE ClaimAssignment

\* The tables and the operations on them implement the assignment.
ImplementsAssignment == Assignment!Spec
=============================================================================
