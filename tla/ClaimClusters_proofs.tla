------------------------ MODULE ClaimClusters_proofs ------------------------
(***************************************************************************)
(* Proofs about ClaimClusters, for every set of claims and identifiers and *)
(* every chunking.  Type correctness holds for any number of sessions; the *)
(* other theorems need that the operations on one analysis version do not  *)
(* overlap (Serial), which the run of two sessions shows to be necessary.  *)
(***************************************************************************)
EXTENDS ClaimClusters, TLAPS

Serial == \A s, t \in Sessions : s = t

-----------------------------------------------------------------------------
(***************************************************************************)
(* Type correctness                                                        *)
(***************************************************************************)

\* The rows a session takes note of are rows of the table.
LEMMA RowsOfRows == \A k : RowsOf(k) \subseteq DOMAIN rows
  BY DEF RowsOf

\* A chunk is a set of claims, and a claim that is regrouped is in one chunk.
LEMMA ChunksPartition ==
    ASSUME NEW active \in SUBSET Claims
    PROVE  /\ Chunking[active] \subseteq SUBSET Claims
           /\ \A c \in active : \E b \in Chunking[active] : c \in b
           /\ \A b \in Chunking[active] : b \subseteq active
           /\ \A b1, b2 \in Chunking[active] : \A c : c \in b1 /\ c \in b2 => b1 = b2
  <1>1. UNION Chunking[active] = active
    BY ChunkingAssumption
  <1>2. \A b1, b2 \in Chunking[active] : b1 # b2 => b1 \cap b2 = {}
    BY ChunkingAssumption
  <1>3. QED
    BY <1>1, <1>2

LEMMA FormReadType ==
    ASSUME TypeOK, NEW s \in Sessions, FormRead(s)
    PROVE  TypeOK'
  <1>1. [op |-> "form", removable |-> Live \ Preserved, active |-> Active(Preserved)]
            \in Pending
    BY DEF TypeOK, Pending, Active
  <1>2. pend' \in [Sessions -> Pending]
    BY <1>1 DEF FormRead, Begin, TypeOK
  <1>3. QED
    BY <1>2 DEF FormRead, TypeOK, Live

LEMMA FormCommitType ==
    ASSUME TypeOK, NEW s \in Sessions, FormCommit(s)
    PROVE  TypeOK'
  <1> DEFINE removed == pend[s].removable \cap Live
             chunks  == Chunking[pend[s].active]
             kept    == SurvivingRows(removed)
  <1>1. pend[s].active \in SUBSET Claims
    BY DEF FormCommit, TypeOK, Pending
  <1>2. chunks \subseteq SUBSET Claims
    BY <1>1, ChunksPartition
  <1>3. PICK id \in Injections(chunks, Fresh) :
            LET created == {id[b] : b \in chunks}
                joined  == {r \in RowId : \E b \in chunks : r[1] \in b /\ r[2] = id[b]}
            IN  /\ clusters' =
                      [k \in (Live \ removed) \cup created |->
                          IF k \in Live THEN clusters[k]
                          ELSE [status |-> "CANDIDATE", locked |-> FALSE,
                                key |-> FormedKey(CHOOSE b \in chunks : id[b] = k),
                                parent |-> None]]
                /\ rows' = [r \in kept \cup joined |->
                               IF r \in kept THEN rows[r] ELSE r[2]]
    BY DEF FormCommit
  <1> DEFINE created == {id[b] : b \in chunks}
             joined  == {r \in RowId : \E b \in chunks : r[1] \in b /\ r[2] = id[b]}
  <1>4. created \subseteq Clusters /\ created \cap Live = {}
    BY <1>3 DEF Injections, Fresh
  <1>5. Live' = (Live \ removed) \cup created
    BY <1>3 DEF Live
  <1>6. ASSUME NEW k \in Live'
        PROVE  clusters'[k] \in ClusterRow
    <2>1. CASE k \in Live
      BY <2>1, <1>3, <1>5 DEF TypeOK
    <2>2. CASE k \notin Live
      <3>1. (CHOOSE b \in chunks : id[b] = k) \in SUBSET Claims
        BY <2>2, <1>2, <1>5
      <3>2. FormedKey(CHOOSE b \in chunks : id[b] = k) \in Key
        BY <3>1 DEF FormedKey, Key
      <3>3. clusters'[k] = [status |-> "CANDIDATE", locked |-> FALSE,
                            key |-> FormedKey(CHOOSE b \in chunks : id[b] = k),
                            parent |-> None]
        BY <2>2, <1>3, <1>5
      <3>4. QED
        BY <3>2, <3>3 DEF ClusterRow, Status
    <2>3. QED
      BY <2>1, <2>2
  <1>7. DOMAIN rows' = kept \cup joined
    BY <1>3
  <1>8. kept \subseteq DOMAIN rows /\ joined \subseteq RowId
    BY DEF SurvivingRows
  <1>9. ASSUME NEW r \in DOMAIN rows'
        PROVE  rows'[r] \in Live'
    <2>1. CASE r \in kept
      <3>1. rows'[r] = rows[r]
        BY <2>1, <1>3
      <3>2. rows[r] \in Live \ removed
        BY <2>1 DEF SurvivingRows, TypeOK
      <3>3. QED
        BY <3>1, <3>2, <1>5
    <2>2. CASE r \notin kept
      <3>1. rows'[r] = r[2] /\ r \in joined
        BY <2>2, <1>3, <1>7
      <3>2. r[2] \in created
        BY <3>1
      <3>3. QED
        BY <3>1, <3>2, <1>5
    <2>3. QED
      BY <2>1, <2>2
  <1>10. traces' \subseteq Live'
    <2>1. removed \cap traces = {}
      BY DEF FormCommit, FormRefused, Referenced
    <2>2. QED
      BY <2>1, <1>5 DEF FormCommit, TypeOK
  <1>11. pend' \in [Sessions -> Pending] /\ edits' \in 0..MaxEdits
    BY DEF FormCommit, End, TypeOK, Pending
  <1>12. Live' \subseteq Clusters
    BY <1>4, <1>5 DEF TypeOK
  <1>13. DOMAIN rows' \subseteq RowId
    BY <1>7, <1>8 DEF TypeOK
  <1>14. QED
    BY <1>6, <1>9, <1>10, <1>11, <1>12, <1>13 DEF TypeOK

LEMMA LockType ==
    ASSUME TypeOK, NEW s \in Sessions, NEW k \in Clusters,
           LockCluster(s, k) \/ UnlockCluster(s, k)
    PROVE  TypeOK'
  <1>1. Live' = Live
    BY DEF LockCluster, UnlockCluster, Live
  <1>2. ASSUME NEW l \in Live
        PROVE  clusters'[l] \in ClusterRow
    <2>1. clusters[l] \in ClusterRow
      BY DEF TypeOK
    <2>2. /\ [clusters[l] EXCEPT !.locked = TRUE, !.status = "LOCKED"] \in ClusterRow
          /\ [clusters[l] EXCEPT !.locked = FALSE, !.status = "NEEDS_REVIEW"] \in ClusterRow
      BY <2>1 DEF ClusterRow, Status
    <2>3. \/ clusters'[l] = clusters[l]
          \/ clusters'[l] = [clusters[l] EXCEPT !.locked = TRUE, !.status = "LOCKED"]
          \/ clusters'[l] = [clusters[l] EXCEPT !.locked = FALSE, !.status = "NEEDS_REVIEW"]
      BY DEF LockCluster, UnlockCluster, Live
    <2>4. QED
      BY <2>1, <2>2, <2>3
  <1>3. edits' \in 0..MaxEdits
    BY MaxEditsAssumption DEF LockCluster, UnlockCluster, Edit, TypeOK
  <1>4. QED
    BY <1>1, <1>2, <1>3 DEF LockCluster, UnlockCluster, TypeOK

LEMMA MergeReadType ==
    ASSUME TypeOK, NEW s \in Sessions, NEW t \in Clusters, NEW k \in Clusters,
           MergeRead(s, t, k)
    PROVE  TypeOK'
  <1>1. [op |-> "merge", target |-> t, source |-> k,
         moved   |-> {r \in RowsOf(k) : r[1] \notin ClaimsOf(t)},
         dropped |-> {r \in RowsOf(k) : r[1] \in ClaimsOf(t)}] \in Pending
    BY RowsOfRows DEF TypeOK, Pending
  <1>2. pend' \in [Sessions -> Pending]
    BY <1>1 DEF MergeRead, Begin, TypeOK
  <1>3. edits' \in 0..MaxEdits
    BY MaxEditsAssumption DEF MergeRead, Edit, TypeOK
  <1>4. QED
    BY <1>2, <1>3 DEF MergeRead, TypeOK, Live

LEMMA MergeCommitType ==
    ASSUME TypeOK, NEW s \in Sessions, MergeCommit(s)
    PROVE  TypeOK'
  <1> DEFINE p == pend[s]
  <1>1. p.target \in Live /\ p.source \in Live
    BY DEF MergeCommit, MergeRefused
  <1>2. Live' = Live
    BY DEF MergeCommit, Live
  <1>3. ASSUME NEW l \in Live
        PROVE  clusters'[l] \in ClusterRow
    BY <1>1 DEF MergeCommit, TypeOK, Live, ClusterRow, Status
  <1>4. /\ DOMAIN rows' = DOMAIN rows \ p.dropped
        /\ \A r \in DOMAIN rows' : rows'[r] = IF r \in p.moved THEN p.target ELSE rows[r]
    BY DEF MergeCommit
  <1>5. pend' \in [Sessions -> Pending]
    BY DEF MergeCommit, End, TypeOK, Pending
  <1>6. \A r \in DOMAIN rows' : rows'[r] \in Live'
    BY <1>1, <1>2, <1>4 DEF TypeOK
  <1>7. traces' = traces /\ edits' = edits
    BY DEF MergeCommit
  <1>8. QED
    BY <1>2, <1>3, <1>4, <1>5, <1>6, <1>7 DEF TypeOK

LEMMA SplitReadType ==
    ASSUME TypeOK, NEW s \in Sessions, NEW k \in Clusters, NEW ids \in SUBSET Claims,
           SplitRead(s, k, ids)
    PROVE  TypeOK'
  <1>1. [op |-> "split", source |-> k, ids |-> ids,
         moved |-> {r \in RowsOf(k) : r[1] \in ids}] \in Pending
    BY RowsOfRows DEF TypeOK, Pending
  <1>2. pend' \in [Sessions -> Pending]
    BY <1>1 DEF SplitRead, Begin, TypeOK
  <1>3. edits' \in 0..MaxEdits
    BY MaxEditsAssumption DEF SplitRead, Edit, TypeOK
  <1>4. QED
    BY <1>2, <1>3 DEF SplitRead, TypeOK, Live

LEMMA SplitCommitType ==
    ASSUME TypeOK, NEW s \in Sessions, SplitCommit(s)
    PROVE  TypeOK'
  <1> DEFINE p == pend[s]
  <1>1. p.source \in Live /\ p.source \in Clusters /\ p.ids \in SUBSET Claims
    BY DEF SplitCommit, SplitRefused, TypeOK, Pending
  <1>2. PICK n \in Fresh :
            /\ clusters' = [k \in Live \cup {n} |->
                               IF k \in Live THEN clusters[k]
                               ELSE [status |-> "SPLIT", locked |-> FALSE,
                                     key |-> SplitKey(p), parent |-> p.source]]
            /\ rows' = [r \in DOMAIN rows |-> IF r \in p.moved THEN n ELSE rows[r]]
    BY DEF SplitCommit
  <1>3. n \in Clusters /\ Live' = Live \cup {n}
    BY <1>2 DEF Fresh, Live
  <1>4. ASSUME NEW k \in Live'
        PROVE  clusters'[k] \in ClusterRow
    <2>1. CASE k \in Live
      BY <2>1, <1>2, <1>3 DEF TypeOK
    <2>2. CASE k \notin Live
      <3>1. SplitKey(p) \in Key
        BY <1>1 DEF SplitKey, Key
      <3>2. clusters'[k] = [status |-> "SPLIT", locked |-> FALSE,
                            key |-> SplitKey(p), parent |-> p.source]
        BY <2>2, <1>2, <1>3
      <3>3. QED
        BY <1>1, <3>1, <3>2 DEF ClusterRow, Status
    <2>3. QED
      BY <2>1, <2>2
  <1>5. pend' \in [Sessions -> Pending]
    BY DEF SplitCommit, End, TypeOK, Pending
  <1>6. DOMAIN rows' = DOMAIN rows /\ \A r \in DOMAIN rows' : rows'[r] \in Live'
    BY <1>2, <1>3 DEF TypeOK
  <1>7. traces' = traces /\ edits' = edits
    BY DEF SplitCommit
  <1>8. QED
    BY <1>3, <1>4, <1>5, <1>6, <1>7 DEF TypeOK

\* Refused commits and the worker's trace change no cluster and no membership.
LEMMA OthersType ==
    ASSUME TypeOK,
           \/ \E s \in Sessions : FormAbort(s) \/ MergeAbort(s) \/ SplitAbort(s)
           \/ \E k \in Clusters : RecordTrace(k)
           \/ UNCHANGED vars
    PROVE  TypeOK'
  <1>1. CASE \E s \in Sessions : FormAbort(s) \/ MergeAbort(s) \/ SplitAbort(s)
    <2>1. pend' \in [Sessions -> Pending]
      BY <1>1 DEF FormAbort, MergeAbort, SplitAbort, End, TypeOK, Pending
    <2>2. UNCHANGED <<clusters, rows, traces, edits>>
      BY <1>1 DEF FormAbort, MergeAbort, SplitAbort
    <2>3. QED
      BY <2>1, <2>2 DEF TypeOK, Live
  <1>2. CASE \E k \in Clusters : RecordTrace(k)
    BY <1>2, MaxEditsAssumption DEF RecordTrace, Edit, TypeOK, Live
  <1>3. CASE UNCHANGED vars
    BY <1>3 DEF vars, TypeOK, Live
  <1>4. QED
    BY <1>1, <1>2, <1>3

\* In every reachable state the rows name existing clusters and every column
\* and every plan of a session has its type.
THEOREM TypeCorrect == Spec => []TypeOK
  <1>1. Init => TypeOK
    BY MaxEditsAssumption DEF Init, TypeOK, Live, Pending
  <1>2. TypeOK /\ [Next]_vars => TypeOK'
    BY FormReadType, FormCommitType, LockType, MergeReadType, MergeCommitType,
       SplitReadType, SplitCommitType, OthersType
       DEF Next
  <1>3. QED
    BY <1>1, <1>2, PTL DEF Spec

\* Clusters cited by completed AI work are never deleted, however sessions
\* overlap: no operation removes a trace, and references do not dangle.
THEOREM CitedSurvive == Spec => CitedClustersSurvive
  <1>1. ASSUME Next
        PROVE  traces \subseteq traces'
    BY <1>1 DEF Next, FormRead, FormCommit, FormAbort, LockCluster, UnlockCluster,
                MergeRead, MergeCommit, MergeAbort, SplitRead, SplitCommit, SplitAbort,
                RecordTrace
  <1>2. ASSUME TypeOK', [Next]_vars
        PROVE  [traces \subseteq traces' /\ traces' \subseteq DOMAIN clusters']_vars
    BY <1>1, <1>2 DEF TypeOK, Live
  <1>3. QED
    BY <1>2, TypeCorrect, PTL DEF Spec, CitedClustersSurvive

-----------------------------------------------------------------------------
(***************************************************************************)
(* Serial operation                                                        *)
(*                                                                         *)
(* OneClusterPerClaim is not inductive: what a commit writes was computed  *)
(* by an earlier step, so the invariant must say that the plan of a        *)
(* session is still true when it is carried out (PlanStillTrue).           *)
(***************************************************************************)

\* What a session read when it planned a form, merge or split is still what
\* the tables hold when it commits: the removed clusters are unlocked, the
\* active claims are those no kept cluster has, and the rows it moves are
\* where it saw them.  It is part of the inductive invariant and no result of
\* its own: it says that nothing happens in between.
PlanStillTrue ==
    \A s \in Sessions :
        LET p == pend[s] IN
        /\ p.op = "form" =>
               /\ p.removable \subseteq Live
               /\ \A k \in p.removable : ~Locked(k)
               /\ \A c \in Claims :
                      c \in p.active <=>
                          \A r \in DOMAIN rows : r[1] = c => rows[r] \in p.removable
        /\ p.op = "merge" =>
               /\ {p.source, p.target} \subseteq Live
               /\ ~Locked(p.source) /\ ~Locked(p.target)
               /\ p.moved   = {r \in RowsOf(p.source) : r[1] \notin ClaimsOf(p.target)}
               /\ p.dropped = {r \in RowsOf(p.source) : r[1] \in ClaimsOf(p.target)}
        /\ p.op = "split" =>
               /\ p.source \in Live
               /\ ~Locked(p.source)
               /\ p.moved = {r \in RowsOf(p.source) : r[1] \in p.ids}

IInv == TypeOK /\ OneClusterPerClaim /\ LockedStatusAgrees /\ PlanStillTrue

\* The facts an action must re-establish or respect, apart from the types.
Kept == OneClusterPerClaim' /\ LockedStatusAgrees' /\ PlanStillTrue' /\ LockedStayPut

\* With one session, an operation that ends leaves no plan behind.
LEMMA NoPlanLeft ==
    ASSUME Serial, NEW s \in Sessions, TypeOK, End(s)
    PROVE  PlanStillTrue'
  <1>1. pend'[s] = [op |-> "idle"]
    BY DEF End, TypeOK
  <1>2. \A t \in Sessions : t = s
    BY DEF Serial
  <1>3. \A t \in Sessions : pend'[t].op = "idle"
    BY <1>1, <1>2
  <1>4. QED
    BY <1>3 DEF PlanStillTrue

\* An action that leaves clusters and memberships alone respects the locked.
LEMMA TablesUntouched ==
    ASSUME IInv, UNCHANGED <<clusters, rows>>
    PROVE  OneClusterPerClaim' /\ LockedStatusAgrees' /\ LockedStayPut
  BY DEF IInv, OneClusterPerClaim, LockedStatusAgrees, LockedStayPut, Live, Locked, RowsOf

LEMMA FormReadKept ==
    ASSUME Serial, IInv, NEW s \in Sessions, FormRead(s)
    PROVE  Kept
  <1>1. OneClusterPerClaim' /\ LockedStatusAgrees' /\ LockedStayPut
    BY TablesUntouched DEF FormRead
  <1>2. pend'[s] = [op |-> "form", removable |-> Live \ Preserved,
                    active |-> Active(Preserved)]
    BY DEF FormRead, Begin, IInv, TypeOK
  <1>3. \A k \in Live \ Preserved : ~Locked(k)
    BY DEF Preserved
  <1>4. \A c \in Claims :
            c \in Active(Preserved) <=>
                \A r \in DOMAIN rows : r[1] = c => rows[r] \in Live \ Preserved
    BY DEF Active, Preserved, ClaimsOf, RowsOf, IInv, TypeOK
  <1>5. \A t \in Sessions : t = s
    BY DEF Serial
  <1>6. PlanStillTrue'
    BY <1>2, <1>3, <1>4, <1>5 DEF PlanStillTrue, FormRead, Live, Locked
  <1>7. QED
    BY <1>1, <1>6 DEF Kept

LEMMA FormCommitKept ==
    ASSUME Serial, IInv, NEW s \in Sessions, FormCommit(s)
    PROVE  Kept
  <1> DEFINE removed == pend[s].removable \cap Live
             chunks  == Chunking[pend[s].active]
             kept    == SurvivingRows(removed)
  <1> USE DEF IInv
  <1>1. pend[s].active \in SUBSET Claims /\ pend[s].op = "form"
    BY DEF FormCommit, TypeOK, Pending
  <1>2. /\ \A b \in chunks : b \subseteq pend[s].active
        /\ \A b1, b2 \in chunks : \A c : c \in b1 /\ c \in b2 => b1 = b2
    BY <1>1, ChunksPartition
  <1>3. PICK id \in Injections(chunks, Fresh) :
            LET created == {id[b] : b \in chunks}
                joined  == {r \in RowId : \E b \in chunks : r[1] \in b /\ r[2] = id[b]}
            IN  /\ clusters' =
                      [k \in (Live \ removed) \cup created |->
                          IF k \in Live THEN clusters[k]
                          ELSE [status |-> "CANDIDATE", locked |-> FALSE,
                                key |-> FormedKey(CHOOSE b \in chunks : id[b] = k),
                                parent |-> None]]
                /\ rows' = [r \in kept \cup joined |->
                               IF r \in kept THEN rows[r] ELSE r[2]]
    BY DEF FormCommit
  <1> DEFINE created == {id[b] : b \in chunks}
             joined  == {r \in RowId : \E b \in chunks : r[1] \in b /\ r[2] = id[b]}
  <1>4. created \cap Live = {}
    BY <1>3 DEF Injections, Fresh
  <1>5. Live' = (Live \ removed) \cup created
    BY <1>3 DEF Live
  <1>6. /\ DOMAIN rows' = kept \cup joined
        /\ \A r \in kept : rows'[r] = rows[r]
        /\ \A r \in joined \ kept : rows'[r] \in created
    BY <1>3
  <1>7. /\ removed = pend[s].removable
        /\ \A k \in removed : ~Locked(k)
        /\ \A c \in Claims :
               c \in pend[s].active <=> \A r \in DOMAIN rows : r[1] = c => rows[r] \in removed
    BY <1>1 DEF PlanStillTrue
  <1>8. \A r \in kept : r \in DOMAIN rows /\ rows[r] \in Live \ removed /\ r \in RowId
    BY DEF SurvivingRows, TypeOK
  <1>9. ASSUME NEW q \in DOMAIN rows', NEW r \in DOMAIN rows', q[1] = r[1]
        PROVE  q = r
    <2>1. \A x \in kept, y \in joined : x[1] # y[1]
      <3>1. \A y \in joined : y[1] \in pend[s].active
        BY <1>2
      <3>2. \A x \in kept : x[1] \in Claims /\ x[1] \notin pend[s].active
        BY <1>7, <1>8 DEF RowId
      <3>3. QED
        BY <3>1, <3>2
    <2>2. CASE q \in kept /\ r \in kept
      BY <2>2, <1>8, <1>9 DEF OneClusterPerClaim
    <2>3. CASE q \in joined /\ r \in joined
      <3>1. q[2] = r[2]
        BY <2>3, <1>2, <1>9
      <3>2. q \in RowId /\ r \in RowId
        BY <2>3
      <3>3. QED
        BY <3>1, <3>2, <1>9 DEF RowId
    <2>4. QED
      BY <2>1, <2>2, <2>3, <1>6, <1>9
  <1>10. LockedStatusAgrees'
    <2> SUFFICES ASSUME NEW k \in Live'
                 PROVE  clusters'[k].locked <=> clusters'[k].status = "LOCKED"
      BY DEF LockedStatusAgrees, Locked
    <2>1. CASE k \in Live
      BY <2>1, <1>3, <1>5 DEF LockedStatusAgrees, Locked
    <2>2. CASE k \notin Live
      <3>1. clusters'[k] = [status |-> "CANDIDATE", locked |-> FALSE,
                            key |-> FormedKey(CHOOSE b \in chunks : id[b] = k),
                            parent |-> None]
        BY <2>2, <1>3, <1>5
      <3>2. QED
        BY <3>1
    <2>3. QED
      BY <2>1, <2>2
  <1>11. LockedStayPut
    <2> SUFFICES ASSUME NEW k \in Live, Locked(k)
                 PROVE  k \in Live' /\ RowsOf(k)' = RowsOf(k)
      BY DEF LockedStayPut, Live
    <2>1. k \notin removed /\ k \notin created
      BY <1>4, <1>7
    <2>2. ASSUME NEW r \in DOMAIN rows'
          PROVE  rows'[r] = k <=> (r \in kept /\ rows[r] = k)
      <3> HIDE DEF kept, created, joined
      <3>1. CASE r \in kept
        BY <3>1, <1>6
      <3>2. CASE r \notin kept
        <4>1. rows'[r] \in created
          BY <3>2, <1>6
        <4>2. QED
          BY <3>2, <4>1, <2>1
      <3>3. QED
        BY <3>1, <3>2
    <2>3. \A r \in DOMAIN rows : rows[r] = k => r \in kept
      BY <2>1 DEF SurvivingRows
    <2>4. RowsOf(k)' = RowsOf(k)
      BY <2>2, <2>3, <1>6, <1>8 DEF RowsOf
    <2>5. QED
      BY <2>1, <2>4, <1>5
  <1>12. PlanStillTrue'
    BY NoPlanLeft DEF FormCommit
  <1>13. QED
    BY <1>9, <1>10, <1>11, <1>12 DEF Kept, OneClusterPerClaim

LEMMA AbortKept ==
    ASSUME Serial, IInv, NEW s \in Sessions, FormAbort(s) \/ MergeAbort(s) \/ SplitAbort(s)
    PROVE  Kept
  <1>1. OneClusterPerClaim' /\ LockedStatusAgrees' /\ LockedStayPut
    BY TablesUntouched DEF FormAbort, MergeAbort, SplitAbort
  <1>2. PlanStillTrue'
    BY NoPlanLeft DEF FormAbort, MergeAbort, SplitAbort, IInv
  <1>3. QED
    BY <1>1, <1>2 DEF Kept

LEMMA LockKept ==
    ASSUME Serial, IInv, NEW s \in Sessions, NEW k \in Clusters,
           LockCluster(s, k) \/ UnlockCluster(s, k)
    PROVE  Kept
  <1>1. /\ Live' = Live
        /\ rows' = rows
        /\ pend' = pend
        /\ pend[s].op = "idle"
    BY DEF LockCluster, UnlockCluster, Live, Idle
  <1>2. ASSUME NEW l \in Live
        PROVE  \/ clusters'[l] = clusters[l]
               \/ clusters'[l] = [clusters[l] EXCEPT !.locked = TRUE, !.status = "LOCKED"]
               \/ clusters'[l] = [clusters[l] EXCEPT !.locked = FALSE, !.status = "NEEDS_REVIEW"]
    BY DEF LockCluster, UnlockCluster, Live
  <1>3. ASSUME NEW l \in Live
        PROVE  clusters'[l].locked <=> clusters'[l].status = "LOCKED"
    <2>1. clusters[l] \in ClusterRow
      BY DEF IInv, TypeOK
    <2>2. clusters[l].locked <=> clusters[l].status = "LOCKED"
      BY DEF IInv, LockedStatusAgrees, Locked
    <2>3. QED
      BY <2>1, <2>2, <1>2 DEF ClusterRow
  <1>4. LockedStatusAgrees'
    BY <1>1, <1>3 DEF LockedStatusAgrees, Locked
  <1>5. OneClusterPerClaim' /\ LockedStayPut
    BY <1>1 DEF IInv, OneClusterPerClaim, LockedStayPut, RowsOf, Live
  <1>6. \A t \in Sessions : pend'[t].op = "idle"
    BY <1>1 DEF Serial
  <1>7. QED
    BY <1>4, <1>5, <1>6 DEF Kept, PlanStillTrue

LEMMA MergeReadKept ==
    ASSUME Serial, IInv, NEW s \in Sessions, NEW t \in Clusters, NEW k \in Clusters,
           MergeRead(s, t, k)
    PROVE  Kept
  <1>1. OneClusterPerClaim' /\ LockedStatusAgrees' /\ LockedStayPut
    BY TablesUntouched DEF MergeRead
  <1>2. pend'[s] = [op |-> "merge", target |-> t, source |-> k,
                    moved   |-> {r \in RowsOf(k) : r[1] \notin ClaimsOf(t)},
                    dropped |-> {r \in RowsOf(k) : r[1] \in ClaimsOf(t)}]
    BY DEF MergeRead, Begin, IInv, TypeOK
  <1>3. \A u \in Sessions : u = s
    BY DEF Serial
  <1>4. clusters' = clusters /\ rows' = rows
    BY DEF MergeRead
  <1>5. {k, t} \subseteq Live /\ ~Locked(k) /\ ~Locked(t)
    BY DEF MergeRead, Mergeable
  <1>6. PlanStillTrue'
    BY <1>2, <1>3, <1>4, <1>5 DEF PlanStillTrue, Live, Locked, RowsOf, ClaimsOf
  <1>7. QED
    BY <1>1, <1>6 DEF Kept

LEMMA MergeCommitKept ==
    ASSUME Serial, IInv, NEW s \in Sessions, MergeCommit(s)
    PROVE  Kept
  <1> DEFINE p == pend[s]
  <1>1. p.op = "merge"
    BY DEF MergeCommit
  <1>2. /\ p.source \in Live /\ p.target \in Live
        /\ ~Locked(p.source) /\ ~Locked(p.target)
        /\ \A r \in p.moved \cup p.dropped : r \in DOMAIN rows /\ rows[r] = p.source
    BY <1>1 DEF IInv, PlanStillTrue, RowsOf
  <1>3. /\ DOMAIN rows' = DOMAIN rows \ p.dropped
        /\ \A r \in DOMAIN rows' : rows'[r] = IF r \in p.moved THEN p.target ELSE rows[r]
    BY DEF MergeCommit
  <1>4. OneClusterPerClaim'
    BY <1>3 DEF IInv, OneClusterPerClaim
  <1>5. /\ Live' = Live
        /\ \A l \in Live \ {p.source} : clusters'[l] = clusters[l]
        /\ clusters'[p.source] = [clusters[p.source] EXCEPT !.status = "MERGED", !.parent = p.target]
    BY <1>2 DEF MergeCommit, Live
  <1>6. clusters[p.source] \in ClusterRow
    BY <1>2 DEF IInv, TypeOK
  <1>7. clusters'[p.source].locked = FALSE /\ clusters'[p.source].status = "MERGED"
    BY <1>2, <1>5, <1>6 DEF Locked, ClusterRow
  <1>8. LockedStatusAgrees'
    <2> SUFFICES ASSUME NEW l \in Live
                 PROVE  clusters'[l].locked <=> clusters'[l].status = "LOCKED"
      BY <1>5 DEF LockedStatusAgrees, Locked
    <2>1. CASE l = p.source
      BY <2>1, <1>7
    <2>2. CASE l # p.source
      BY <2>2, <1>5 DEF IInv, LockedStatusAgrees, Locked
    <2>3. QED
      BY <2>1, <2>2
  <1>9. LockedStayPut
    BY <1>2, <1>3, <1>5 DEF LockedStayPut, RowsOf, Live
  <1>10. PlanStillTrue'
    BY NoPlanLeft DEF MergeCommit, IInv
  <1>11. QED
    BY <1>4, <1>8, <1>9, <1>10 DEF Kept

LEMMA SplitReadKept ==
    ASSUME Serial, IInv, NEW s \in Sessions, NEW k \in Clusters, NEW ids \in SUBSET Claims,
           SplitRead(s, k, ids)
    PROVE  Kept
  <1>1. OneClusterPerClaim' /\ LockedStatusAgrees' /\ LockedStayPut
    BY TablesUntouched DEF SplitRead
  <1>2. pend'[s] = [op |-> "split", source |-> k, ids |-> ids,
                    moved |-> {r \in RowsOf(k) : r[1] \in ids}]
    BY DEF SplitRead, Begin, IInv, TypeOK
  <1>3. \A u \in Sessions : u = s
    BY DEF Serial
  <1>4. clusters' = clusters /\ rows' = rows
    BY DEF SplitRead
  <1>5. k \in Live /\ ~Locked(k)
    BY DEF SplitRead, Splittable
  <1>6. PlanStillTrue'
    BY <1>2, <1>3, <1>4, <1>5 DEF PlanStillTrue, Live, Locked, RowsOf
  <1>7. QED
    BY <1>1, <1>6 DEF Kept

LEMMA SplitCommitKept ==
    ASSUME Serial, IInv, NEW s \in Sessions, SplitCommit(s)
    PROVE  Kept
  <1> DEFINE p == pend[s]
  <1>1. p.op = "split"
    BY DEF SplitCommit
  <1>2. /\ p.source \in Live /\ ~Locked(p.source)
        /\ \A r \in p.moved : r \in DOMAIN rows /\ rows[r] = p.source
    BY <1>1 DEF IInv, PlanStillTrue, RowsOf
  <1>3. PICK n \in Fresh :
            /\ clusters' = [k \in Live \cup {n} |->
                               IF k \in Live THEN clusters[k]
                               ELSE [status |-> "SPLIT", locked |-> FALSE,
                                     key |-> SplitKey(p), parent |-> p.source]]
            /\ rows' = [r \in DOMAIN rows |-> IF r \in p.moved THEN n ELSE rows[r]]
    BY DEF SplitCommit
  <1>4. n \notin Live /\ Live' = Live \cup {n}
    BY <1>3 DEF Fresh, Live
  <1>5. OneClusterPerClaim'
    BY <1>3 DEF IInv, OneClusterPerClaim
  <1>6. LockedStatusAgrees'
    <2> SUFFICES ASSUME NEW l \in Live'
                 PROVE  clusters'[l].locked <=> clusters'[l].status = "LOCKED"
      BY DEF LockedStatusAgrees, Locked
    <2>1. CASE l \in Live
      BY <2>1, <1>3, <1>4 DEF IInv, LockedStatusAgrees, Locked
    <2>2. CASE l = n
      <3>1. clusters'[l] = [status |-> "SPLIT", locked |-> FALSE,
                            key |-> SplitKey(p), parent |-> p.source]
        BY <2>2, <1>3, <1>4
      <3>2. QED
        BY <3>1
    <2>3. QED
      BY <2>1, <2>2, <1>4
  <1>7. LockedStayPut
    <2> SUFFICES ASSUME NEW l \in Live, Locked(l)
                 PROVE  l \in Live' /\ RowsOf(l)' = RowsOf(l)
      BY DEF LockedStayPut, Live
    <2>1. l # n /\ l # p.source
      BY <1>2, <1>4
    <2>2. \A r \in DOMAIN rows : rows'[r] = l <=> rows[r] = l
      BY <2>1, <1>2, <1>3
    <2>3. DOMAIN rows' = DOMAIN rows
      BY <1>3
    <2>4. QED
      BY <2>2, <2>3, <1>4 DEF RowsOf
  <1>8. PlanStillTrue'
    BY NoPlanLeft DEF SplitCommit, IInv
  <1>9. QED
    BY <1>5, <1>6, <1>7, <1>8 DEF Kept

LEMMA TraceKept ==
    ASSUME IInv, (\E k \in Clusters : RecordTrace(k)) \/ UNCHANGED vars
    PROVE  Kept
  <1>1. clusters' = clusters /\ rows' = rows /\ pend' = pend
    BY DEF RecordTrace, vars
  <1>2. OneClusterPerClaim' /\ LockedStatusAgrees' /\ LockedStayPut
    BY <1>1, TablesUntouched
  <1>3. PlanStillTrue'
    BY <1>1 DEF IInv, PlanStillTrue, Live, Locked, RowsOf, ClaimsOf
  <1>4. QED
    BY <1>2, <1>3 DEF Kept

LEMMA StepKept ==
    ASSUME Serial, IInv, [Next]_vars
    PROVE  Kept
  BY FormReadKept, FormCommitKept, AbortKept, LockKept, MergeReadKept, MergeCommitKept,
     SplitReadKept, SplitCommitKept, TraceKept
     DEF Next

LEMMA InvariantHolds ==
    ASSUME Serial
    PROVE  Spec => []IInv
  <1>1. Init => IInv
    <2>1. Init => TypeOK
      BY MaxEditsAssumption DEF Init, TypeOK, Live, Pending
    <2>2. QED
      BY <2>1 DEF Init, IInv, OneClusterPerClaim, LockedStatusAgrees, PlanStillTrue, Live
  <1>2. IInv /\ [Next]_vars => IInv'
    <2> SUFFICES ASSUME IInv, [Next]_vars
                 PROVE  IInv'
      OBVIOUS
    <2>1. TypeOK'
      BY FormReadType, FormCommitType, LockType, MergeReadType, MergeCommitType,
         SplitReadType, SplitCommitType, OthersType
         DEF Next, IInv
    <2>2. Kept
      BY StepKept
    <2>3. QED
      BY <2>1, <2>2 DEF IInv, Kept
  <1>3. QED
    BY <1>1, <1>2, PTL DEF Spec

\* As long as the operations of a version do not overlap, no claim is ever a
\* member of two clusters.
THEOREM ClaimsInOneCluster ==
    ASSUME Serial
    PROVE  Spec => []OneClusterPerClaim
  <1>1. IInv => OneClusterPerClaim
    BY DEF IInv
  <1>2. QED
    BY <1>1, InvariantHolds, PTL

\* As long as the operations of a version do not overlap, the lock flag and
\* the LOCKED status of a cluster agree.
THEOREM LockedStatusHolds ==
    ASSUME Serial
    PROVE  Spec => []LockedStatusAgrees
  <1>1. IInv => LockedStatusAgrees
    BY DEF IInv
  <1>2. QED
    BY <1>1, InvariantHolds, PTL

\* As long as the operations of a version do not overlap, a locked cluster
\* survives every step with exactly its members.
THEOREM LockedPreserved ==
    ASSUME Serial
    PROVE  Spec => LockedClustersPreserved
  <1>1. IInv /\ [Next]_vars => LockedStayPut
    BY StepKept DEF Kept
  <1>2. QED
    BY <1>1, InvariantHolds, PTL DEF Spec, LockedClustersPreserved

\* What a re-form leaves of the claims: a row for each of them.
Covered == \A s \in Sessions : FormCommit(s) => \A c \in Claims : \E r \in (DOMAIN rows)' : r[1] = c

\* A claim that was to be regrouped is in a chunk and joins its cluster; any
\* other has a row in a cluster that is kept.
LEMMA FormCovers ==
    ASSUME IInv
    PROVE  Covered
  <1> SUFFICES ASSUME NEW s \in Sessions, FormCommit(s), NEW c \in Claims
               PROVE  \E r \in DOMAIN rows' : r[1] = c
    BY DEF Covered
  <1> DEFINE removed == pend[s].removable \cap Live
             chunks  == Chunking[pend[s].active]
             kept    == SurvivingRows(removed)
  <1>1. pend[s].active \in SUBSET Claims /\ pend[s].op = "form"
    BY DEF FormCommit, IInv, TypeOK, Pending
  <1>2. PICK id \in Injections(chunks, Fresh) :
            LET joined == {r \in RowId : \E b \in chunks : r[1] \in b /\ r[2] = id[b]}
            IN  rows' = [r \in kept \cup joined |-> IF r \in kept THEN rows[r] ELSE r[2]]
    BY DEF FormCommit
  <1> DEFINE joined == {r \in RowId : \E b \in chunks : r[1] \in b /\ r[2] = id[b]}
  <1>3. DOMAIN rows' = kept \cup joined
    BY <1>2
  <1>4. CASE c \in pend[s].active
    <2>1. UNION chunks = pend[s].active
      BY <1>1, ChunkingAssumption
    <2>2. PICK b \in chunks : c \in b
      BY <1>4, <2>1
    <2>3. id[b] \in Clusters
      BY <1>2 DEF Injections, Fresh
    <2>4. <<c, id[b]>> \in joined
      BY <2>2, <2>3 DEF RowId
    <2>5. QED
      BY <1>3, <2>4
  <1>5. CASE c \notin pend[s].active
    <2>1. PICK r \in DOMAIN rows : r[1] = c /\ rows[r] \notin pend[s].removable
      BY <1>1, <1>5 DEF IInv, PlanStillTrue
    <2>2. r \in kept
      BY <2>1 DEF SurvivingRows
    <2>3. QED
      BY <1>3, <2>1, <2>2
  <1>6. QED
    BY <1>4, <1>5

\* As long as the operations of a version do not overlap, a re-form leaves no
\* claim without a cluster.
THEOREM FormCoversAll ==
    ASSUME Serial
    PROVE  Spec => FormCoversEveryClaim
  <1>1. IInv => Covered
    BY FormCovers
  <1>2. FormCoversEveryClaim <=> [][Covered]_vars
    BY DEF FormCoversEveryClaim, Covered
  <1>3. QED
    BY <1>1, <1>2, InvariantHolds, PTL DEF Spec

-----------------------------------------------------------------------------
(***************************************************************************)
(* The operations implement the assignment of claims (ClaimAssignment).    *)
(***************************************************************************)

\* The function f says of each claim in which cluster its row in table is.
Tells(f, table) ==
    /\ f = [c \in Claims |-> f[c]]
    /\ \A r \in DOMAIN table : r[1] \in Claims => f[r[1]] = table[r]
    /\ \A c \in Claims : (\A r \in DOMAIN table : r[1] # c) => f[c] = None

LEMMA OneRowTells ==
    ASSUME NEW table, NEW f,
           \A q, r \in DOMAIN table : q[1] = r[1] => q = r,
           f = [c \in Claims |-> IF \E r \in DOMAIN table : r[1] = c
                                 THEN table[CHOOSE r \in DOMAIN table : r[1] = c]
                                 ELSE None]
    PROVE  Tells(f, table)
  <1>1. ASSUME NEW r \in DOMAIN table, r[1] \in Claims
        PROVE  f[r[1]] = table[r]
    <2>1. (CHOOSE q \in DOMAIN table : q[1] = r[1]) = r
      BY <1>1
    <2>2. QED
      BY <1>1, <2>1
  <1>2. f = [c \in Claims |-> f[c]] /\ \A c \in Claims : (\A r \in DOMAIN table : r[1] # c) => f[c] = None
    OBVIOUS
  <1>3. QED
    BY <1>1, <1>2 DEF Tells

LEMMA AssignTells ==
    ASSUME IInv, IInv'
    PROVE  Tells(assign, rows) /\ Tells(assign', rows')
  <1>1. Tells(assign, rows)
    BY OneRowTells DEF IInv, OneClusterPerClaim, assign
  <1>2. Tells(assign', rows')
    BY OneRowTells DEF IInv, OneClusterPerClaim, assign
  <1>3. QED
    BY <1>1, <1>2

\* Pinned clusters, before and after.
LEMMA SameLocks ==
    ASSUME Live' = Live, \A k \in Live : clusters'[k].locked = clusters[k].locked
    PROVE  pinned' = pinned
  BY DEF pinned, Locked

LEMMA FormKeepsLocks ==
    ASSUME IInv, NEW s \in Sessions, FormCommit(s)
    PROVE  pinned' = pinned
  <1> DEFINE removed == pend[s].removable \cap Live
             chunks  == Chunking[pend[s].active]
  <1>1. PICK id \in Injections(chunks, Fresh) :
            clusters' =
                [k \in (Live \ removed) \cup {id[b] : b \in chunks} |->
                    IF k \in Live THEN clusters[k]
                    ELSE [status |-> "CANDIDATE", locked |-> FALSE,
                          key |-> FormedKey(CHOOSE b \in chunks : id[b] = k),
                          parent |-> None]]
    BY DEF FormCommit
  <1> DEFINE created == {id[b] : b \in chunks}
  <1>2. created \cap Live = {}
    BY <1>1 DEF Injections, Fresh
  <1>3. \A k \in removed : ~Locked(k)
    BY DEF FormCommit, IInv, PlanStillTrue
  <1>4. Live' = (Live \ removed) \cup created
    BY <1>1 DEF Live
  <1>5. \A k \in Live \ removed : clusters'[k] = clusters[k]
    BY <1>1
  <1>6. \A k \in created : clusters'[k].locked = FALSE
    BY <1>1, <1>2
  <1>7. \A k \in Live' : Locked(k)' <=> k \in Live \ removed /\ Locked(k)
    BY <1>2, <1>4, <1>5, <1>6 DEF Locked
  <1>8. QED
    BY <1>3, <1>4, <1>7 DEF pinned

LEMMA FormRegroups ==
    ASSUME Serial, IInv, IInv', Kept, NEW s \in Sessions, FormCommit(s)
    PROVE  Assignment!Regroup
  <1>1. Tells(assign, rows) /\ Tells(assign', rows')
    BY AssignTells
  <1>2. \A c \in Claims : \E r \in DOMAIN rows' : r[1] = c
    BY FormCovers DEF Covered
  <1>3. assign' \in [Claims -> Clusters]
    <2>1. \A r \in DOMAIN rows' : rows'[r] \in Clusters
      BY DEF IInv, TypeOK
    <2>2. \A c \in Claims : assign'[c] \in Clusters
      BY <1>1, <1>2, <2>1 DEF Tells
    <2>3. QED
      BY <1>1, <2>2 DEF Tells
  <1>4. ASSUME NEW c \in Claims, assign[c] \in pinned
        PROVE  assign'[c] = assign[c]
    <2>1. assign[c] # None /\ assign[c] \in Live /\ Locked(assign[c])
      BY <1>4, NoneAssumption DEF IInv, TypeOK, pinned
    <2>2. PICK r \in DOMAIN rows : r[1] = c /\ rows[r] = assign[c]
      BY <1>1, <2>1 DEF Tells
    <2>3. r \in RowsOf(assign[c])
      BY <2>2 DEF RowsOf
    <2>4. r \in DOMAIN rows' /\ rows'[r] = assign[c]
      BY <2>1, <2>3 DEF Kept, LockedStayPut, RowsOf
    <2>5. QED
      BY <1>1, <2>2, <2>4 DEF Tells
  <1>5. ASSUME NEW c \in Claims, assign'[c] \in pinned
        PROVE  assign'[c] = assign[c]
    <2>1. PICK r \in DOMAIN rows' : r[1] = c /\ rows'[r] = assign'[c]
      BY <1>1, <1>2 DEF Tells
    <2>2. assign'[c] \in Live /\ Locked(assign'[c])
      BY <1>5 DEF pinned
    <2>3. r \in RowsOf(assign'[c])
      BY <2>1, <2>2 DEF Kept, LockedStayPut, RowsOf
    <2>4. QED
      BY <1>1, <2>1, <2>3 DEF Tells, RowsOf
  <1>6. pinned' = pinned
    BY FormKeepsLocks
  <1>7. QED
    BY <1>3, <1>4, <1>5, <1>6 DEF Assignment!Regroup

LEMMA LockPins ==
    ASSUME IInv, NEW s \in Sessions, NEW k \in Clusters,
           LockCluster(s, k) \/ UnlockCluster(s, k)
    PROVE  Assignment!Pin(k) \/ Assignment!Unpin(k)
  <1>1. assign' = assign /\ Live' = Live /\ k \in Live
    BY DEF LockCluster, UnlockCluster, assign, Live
  <1>2. clusters[k] \in ClusterRow
    BY <1>1 DEF IInv, TypeOK
  <1>3. CASE LockCluster(s, k)
    <2>1. /\ \A l \in Live \ {k} : clusters'[l].locked = clusters[l].locked
          /\ clusters'[k].locked = TRUE
      BY <1>1, <1>2, <1>3 DEF LockCluster, Live, ClusterRow
    <2>2. pinned' = pinned \cup {k}
      BY <1>1, <2>1 DEF pinned, Locked
    <2>3. QED
      BY <1>1, <2>2 DEF Assignment!Pin
  <1>4. CASE UnlockCluster(s, k)
    <2>1. /\ \A l \in Live \ {k} : clusters'[l].locked = clusters[l].locked
          /\ clusters'[k].locked = FALSE
      BY <1>1, <1>2, <1>4 DEF UnlockCluster, Live, ClusterRow
    <2>2. pinned' = pinned \ {k}
      BY <1>1, <2>1 DEF pinned, Locked
    <2>3. QED
      BY <1>1, <2>2 DEF Assignment!Unpin
  <1>5. QED
    BY <1>3, <1>4

\* Between two clusters, all rows move; within one, all are dropped.
LEMMA MergeMovesClaims ==
    ASSUME IInv, IInv', NEW s \in Sessions, MergeCommit(s)
    PROVE  \/ \E k, t \in Clusters : Assignment!Merge(k, t)
           \/ \E k \in Clusters : Assignment!Dissolve(k)
  <1> DEFINE p == pend[s]
             k == p.source
             t == p.target
  <1>1. /\ k \in Live /\ t \in Live /\ ~Locked(k) /\ ~Locked(t)
        /\ p.moved   = {r \in RowsOf(k) : r[1] \notin ClaimsOf(t)}
        /\ p.dropped = {r \in RowsOf(k) : r[1] \in ClaimsOf(t)}
    BY DEF MergeCommit, IInv, PlanStillTrue
  <1>2. /\ rows' = [r \in DOMAIN rows \ p.dropped |-> IF r \in p.moved THEN t ELSE rows[r]]
        /\ clusters' = [clusters EXCEPT ![k] = [@ EXCEPT !.status = "MERGED", !.parent = t]]
    BY DEF MergeCommit
  <1>3. Tells(assign, rows) /\ Tells(assign', rows')
    BY AssignTells
  <1>4. k \in Clusters /\ t \in Clusters /\ clusters[k] \in ClusterRow /\ k # None
    BY <1>1, NoneAssumption DEF IInv, TypeOK
  <1> HIDE DEF p, k, t
  <1>5. pinned' = pinned
    <2>1. Live' = Live
      BY <1>2 DEF Live
    <2>2. \A l \in Live : clusters'[l].locked = clusters[l].locked
      BY <1>1, <1>2, <1>4 DEF Live, ClusterRow
    <2>3. QED
      BY <2>1, <2>2, SameLocks
  <1>6. k \notin pinned /\ t \notin pinned
    BY <1>1 DEF pinned
  <1>7. DOMAIN rows' = DOMAIN rows \ p.dropped
    BY <1>2
  <1>8. \A r \in DOMAIN rows : r[1] \in Claims
    BY DEF IInv, TypeOK, RowId
  <1>9. CASE k = t
    <2>1. p.moved = {} /\ p.dropped = RowsOf(k)
      BY <1>1, <1>9 DEF ClaimsOf
    <2>2. ASSUME NEW c \in Claims
          PROVE  assign'[c] = IF assign[c] = k THEN None ELSE assign[c]
      <3>1. CASE \E r \in DOMAIN rows : r[1] = c /\ rows[r] = k
        <4>1. assign[c] = k
          BY <1>3, <3>1 DEF Tells
        <4>2. \A q \in DOMAIN rows' : q[1] # c
          BY <1>7, <2>1, <3>1 DEF IInv, OneClusterPerClaim, RowsOf
        <4>3. QED
          BY <1>3, <4>1, <4>2 DEF Tells
      <3>2. CASE \E r \in DOMAIN rows : r[1] = c /\ rows[r] # k
        <4>1. PICK r \in DOMAIN rows : r[1] = c /\ rows[r] # k
          BY <3>2
        <4>2. r \in DOMAIN rows' /\ rows'[r] = rows[r]
          BY <1>2, <2>1, <4>1 DEF RowsOf
        <4>3. QED
          BY <1>3, <4>1, <4>2 DEF Tells
      <3>3. CASE \A r \in DOMAIN rows : r[1] # c
        BY <1>3, <1>4, <1>7, <3>3 DEF Tells
      <3>4. QED
        BY <3>1, <3>2, <3>3
    <2>3. assign' = [c \in Claims |-> IF assign[c] = k THEN None ELSE assign[c]]
      BY <1>3, <2>2 DEF Tells
    <2>4. QED
      BY <1>4, <1>5, <1>6, <2>3 DEF Assignment!Dissolve
  <1>10. CASE k # t
    <2>1. p.dropped = {}
      BY <1>1, <1>10 DEF ClaimsOf, RowsOf, IInv, OneClusterPerClaim
    <2>2. p.moved = RowsOf(k)
      BY <1>1, <2>1
    <2>3. ASSUME NEW c \in Claims
          PROVE  assign'[c] = IF assign[c] = k THEN t ELSE assign[c]
      <3>1. CASE \E r \in DOMAIN rows : r[1] = c
        <4>1. PICK r \in DOMAIN rows : r[1] = c
          BY <3>1
        <4>2. r \in DOMAIN rows' /\ rows'[r] = IF rows[r] = k THEN t ELSE rows[r]
          BY <1>2, <2>1, <2>2, <4>1 DEF RowsOf
        <4>3. QED
          BY <1>3, <4>1, <4>2 DEF Tells
      <3>2. CASE \A r \in DOMAIN rows : r[1] # c
        BY <1>3, <1>4, <1>7, <3>2 DEF Tells
      <3>3. QED
        BY <3>1, <3>2
    <2>4. assign' = [c \in Claims |-> IF assign[c] = k THEN t ELSE assign[c]]
      BY <1>3, <2>3 DEF Tells
    <2>5. QED
      BY <1>4, <1>5, <1>6, <1>10, <2>4 DEF Assignment!Merge
  <1>11. QED
    BY <1>9, <1>10

\* The new cluster is unused, and what moves there is a part of the source.
LEMMA SplitMovesPart ==
    ASSUME IInv, IInv', NEW s \in Sessions, SplitCommit(s)
    PROVE  \/ \E k, t \in Clusters, part \in SUBSET Claims : Assignment!Split(k, t, part)
           \/ UNCHANGED <<assign, pinned>>
  <1> DEFINE p == pend[s]
             k == p.source
             part == {r[1] : r \in p.moved}
  <1>1. k \in Live /\ ~Locked(k) /\ p.moved = {r \in RowsOf(k) : r[1] \in p.ids}
    BY DEF SplitCommit, IInv, PlanStillTrue
  <1>2. PICK n \in Fresh :
            /\ clusters' = [l \in Live \cup {n} |->
                               IF l \in Live THEN clusters[l]
                               ELSE [status |-> "SPLIT", locked |-> FALSE,
                                     key |-> SplitKey(p), parent |-> k]]
            /\ rows' = [r \in DOMAIN rows |-> IF r \in p.moved THEN n ELSE rows[r]]
    BY DEF SplitCommit
  <1>3. Tells(assign, rows) /\ Tells(assign', rows')
    BY AssignTells
  <1>4. /\ k \in Clusters /\ n \in Clusters /\ n \notin Live /\ n # None
    BY <1>1, <1>2, NoneAssumption DEF Fresh, IInv, TypeOK
  <1>5. \A r \in DOMAIN rows : r[1] \in Claims /\ rows[r] \in Live
    BY DEF IInv, TypeOK, RowId
  <1> HIDE DEF p, k
  <1>6. pinned' = pinned
    <2>1. Live' = Live \cup {n} /\ clusters'[n].locked = FALSE
      BY <1>2, <1>4 DEF Live
    <2>2. \A l \in Live : clusters'[l] = clusters[l]
      BY <1>2
    <2>3. QED
      BY <1>4, <2>1, <2>2 DEF pinned, Locked
  <1>7. k \notin pinned /\ n \notin pinned
    BY <1>1, <1>4 DEF pinned
  <1>8. \A r \in p.moved : r \in DOMAIN rows /\ rows[r] = k
    BY <1>1 DEF RowsOf
  <1>9. \A c \in Claims : assign[c] # n
    <2>1. SUFFICES ASSUME NEW c \in Claims PROVE assign[c] # n
      OBVIOUS
    <2>2. CASE \E r \in DOMAIN rows : r[1] = c
      BY <1>3, <1>4, <1>5, <2>2 DEF Tells
    <2>3. CASE \A r \in DOMAIN rows : r[1] # c
      BY <1>3, <1>4, <2>3 DEF Tells
    <2>4. QED
      BY <2>2, <2>3
  <1>10. ASSUME NEW c \in Claims
         PROVE  assign'[c] = IF c \in part THEN n ELSE assign[c]
    <2>1. CASE \E r \in DOMAIN rows : r[1] = c
      <3>1. PICK r \in DOMAIN rows : r[1] = c
        BY <2>1
      <3>2. r \in p.moved <=> c \in part
        BY <1>8, <3>1 DEF IInv, OneClusterPerClaim
      <3>3. r \in DOMAIN rows' /\ rows'[r] = IF r \in p.moved THEN n ELSE rows[r]
        BY <1>2, <3>1
      <3>4. QED
        BY <1>3, <3>1, <3>2, <3>3 DEF Tells
    <2>2. CASE \A r \in DOMAIN rows : r[1] # c
      BY <1>2, <1>3, <1>8, <2>2 DEF Tells
    <2>3. QED
      BY <2>1, <2>2
  <1>11. assign' = [c \in Claims |-> IF c \in part THEN n ELSE assign[c]]
    BY <1>3, <1>10 DEF Tells
  <1>12. part \in SUBSET Claims /\ \A c \in part : assign[c] = k
    BY <1>3, <1>5, <1>8 DEF Tells
  <1>13. CASE part = {}
    <2>1. assign' = [c \in Claims |-> assign[c]]
      BY <1>11, <1>13
    <2>2. QED
      BY <1>3, <1>6, <2>1 DEF Tells
  <1>14. CASE part # {}
    <2>1. Assignment!Split(k, n, part)
      BY <1>6, <1>7, <1>9, <1>11, <1>12, <1>14 DEF Assignment!Split, Assignment!ClaimsIn
    <2>2. QED
      BY <1>4, <1>12, <2>1
  <1>15. QED
    BY <1>13, <1>14

\* Reading, giving up and tracing move no claim and no lock.
LEMMA StepAssigns ==
    ASSUME Serial, IInv, IInv', [Next]_vars
    PROVE  [Assignment!Next]_<<assign, pinned>>
  <1>1. ASSUME UNCHANGED <<clusters, rows>> PROVE UNCHANGED <<assign, pinned>>
    BY <1>1 DEF assign, pinned, Live, Locked
  <1>2. ASSUME NEW s \in Sessions,
               \/ FormRead(s) \/ FormAbort(s) \/ MergeAbort(s) \/ SplitAbort(s)
               \/ \E t, k \in Clusters : MergeRead(s, t, k)
               \/ \E k \in Clusters, ids \in SUBSET Claims : SplitRead(s, k, ids)
        PROVE  UNCHANGED <<clusters, rows>>
    BY <1>2 DEF FormRead, FormAbort, MergeAbort, SplitAbort, MergeRead, SplitRead
  <1>3. ASSUME NEW s \in Sessions, FormCommit(s) PROVE Assignment!Regroup
    BY <1>3, FormRegroups, StepKept
  <1>4. ASSUME (\E k \in Clusters : RecordTrace(k)) \/ UNCHANGED vars
        PROVE  UNCHANGED <<clusters, rows>>
    BY <1>4 DEF RecordTrace, vars
  <1>5. QED
    BY <1>1, <1>2, <1>3, <1>4, LockPins, MergeMovesClaims, SplitMovesPart
       DEF Next, Assignment!Next

\* As long as the operations of a version do not overlap, the tables of
\* clusters and memberships, and the operations on them, implement what a
\* reviewer is promised: an assignment of claims to clusters in which a pinned
\* cluster keeps exactly its claims.
THEOREM TablesImplementAssignment ==
    ASSUME Serial
    PROVE  Spec => ImplementsAssignment
  <1>1. Init => Assignment!Init
    BY DEF Init, Assignment!Init, assign, pinned, Live
  <1>2. IInv /\ IInv' /\ [Next]_vars => [Assignment!Next]_<<assign, pinned>>
    BY StepAssigns
  <1>3. QED
    BY <1>1, <1>2, InvariantHolds, PTL DEF Spec, ImplementsAssignment, Assignment!Spec
=============================================================================
