--------------------------- MODULE ClaimAssignment ---------------------------
(***************************************************************************)
(* What claim clustering promises a reviewer, without tables, keys or      *)
(* sessions: every claim is in at most one cluster, a pinned cluster keeps *)
(* exactly its claims until it is unpinned, and regrouping leaves every    *)
(* claim somewhere.                                                        *)
(***************************************************************************)
CONSTANTS Claims, Clusters, None

VARIABLES
    assign,     \* claim -> its cluster, or None
    pinned      \* the clusters a human has locked

ClaimsIn(k) == {c \in Claims : assign[c] = k}

Init == assign = [c \in Claims |-> None] /\ pinned = {}

Pin(k) == pinned' = pinned \cup {k} /\ UNCHANGED assign

Unpin(k) == pinned' = pinned \ {k} /\ UNCHANGED assign

\* Claims of pinned clusters stay; nobody joins a pinned cluster; every claim
\* ends up in some cluster.
Regroup ==
    /\ assign' \in [Claims -> Clusters]
    /\ \A c \in Claims : assign[c] \in pinned \/ assign'[c] \in pinned
                             => assign'[c] = assign[c]
    /\ UNCHANGED pinned

\* All claims of one unpinned cluster go to another one.
Merge(source, target) ==
    /\ {source, target} \cap pinned = {}
    /\ source # target
    /\ assign' = [c \in Claims |-> IF assign[c] = source THEN target ELSE assign[c]]
    /\ UNCHANGED pinned

\* Merging an unpinned cluster into itself leaves its claims without one.
Dissolve(k) ==
    /\ k \notin pinned
    /\ assign' = [c \in Claims |-> IF assign[c] = k THEN None ELSE assign[c]]
    /\ UNCHANGED pinned

\* Some claims of an unpinned cluster move to an unused one.
Split(source, new, part) ==
    /\ {source, new} \cap pinned = {}
    /\ ClaimsIn(new) = {}
    /\ part # {} /\ part \subseteq ClaimsIn(source)
    /\ assign' = [c \in Claims |-> IF c \in part THEN new ELSE assign[c]]
    /\ UNCHANGED pinned

Next ==
    \/ Regroup
    \/ \E k \in Clusters : Pin(k) \/ Unpin(k) \/ Dissolve(k)
    \/ \E k, t \in Clusters : Merge(k, t)
    \/ \E k, t \in Clusters, part \in SUBSET Claims : Split(k, t, part)

Spec == Init /\ [][Next]_<<assign, pinned>>
=============================================================================
