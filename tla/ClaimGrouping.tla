---------------------------- MODULE ClaimGrouping ----------------------------
(***************************************************************************)
(* The pure part of claim clustering                                       *)
(* (claims/clustering/cluster_service.py): which claims belong together.   *)
(* A claim is a number -- its place in list_for_analysis_ordered, which is *)
(* also the order the id-sorted chunks are compared in -- and Attributes   *)
(* gives the columns the score reads.  Scores are in hundredths, and a     *)
(* ratio of token counts is compared by cross-multiplication, so nothing   *)
(* depends on floating point.  Embeddings are off (ClusterConfig's         *)
(* default), so no vector takes part in a score.                           *)
(***************************************************************************)
EXTENDS Integers, FiniteSets, FiniteSetsExt

CONSTANTS
    Claims,     \* the claims of one analysis version
    Attributes, \* [Claims -> [subject, path, node, role, action, numbers, words]]
    MaxSize,    \* ClusterConfig.max_size
    None        \* a column that is NULL

-----------------------------------------------------------------------------
(***************************************************************************)
(* The pair score                                                          *)
(***************************************************************************)

\* lexical_similarity: |shared tokens| / |all tokens| is at least pct %,
\* and 0 when either text has no token.
LexicalAtLeast(a, b, pct) ==
    /\ a.words # {} /\ b.words # {}
    /\ 100 * Cardinality(a.words \cap b.words)
           >= pct * Cardinality(a.words \cup b.words)

\* Is c strictly closer to seed than d is?
Closer(seed, c, d) ==
    LET shared(x) == Cardinality(seed.words \cap x.words)
        all(x)    == Cardinality(seed.words \cup x.words)
    IN  /\ seed.words # {} /\ c.words # {}
        /\ \/ d.words = {} /\ shared(c) > 0
           \/ d.words # {} /\ shared(c) * all(d) > shared(d) * all(c)

BothEqual(x, y) == x # None /\ x = y

SubjectsConflict(a, b) ==
    a.subject # None /\ b.subject # None /\ a.subject # b.subject

\* _PairFlags.structured
Structured(a, b) ==
    \/ BothEqual(a.node, b.node)
    \/ BothEqual(a.subject, b.subject)
    \/ BothEqual(a.path, b.path)
    \/ a.numbers \cap b.numbers # {}
    \/ a.action \cap b.action # {}

StructuredScore(a, b) ==
    LET points(p, n) == IF p THEN n ELSE 0
    IN  points(BothEqual(a.node, b.node), 45)
      + points(BothEqual(a.subject, b.subject), 40)
      + points(BothEqual(a.path, b.path), IF a.role # b.role THEN 20 ELSE 8)
      + points(a.numbers \cap b.numbers # {}, 10)
      + points(a.action \cap b.action # {}, 15)

\* _signals; a lexical similarity of 45 % or more adds min(lexical, 0.35),
\* which is always 35.
Signals(a, b) ==
    IF \/ SubjectsConflict(a, b)
       \/ ~Structured(a, b) /\ ~LexicalAtLeast(a, b, 60)
    THEN 0
    ELSE StructuredScore(a, b) + (IF LexicalAtLeast(a, b, 45) THEN 35 ELSE 0)

Threshold == 35

\* The pairs _union_find_groups unites.
Similar ==
    {p \in Claims \X Claims :
        p[1] < p[2] /\ Signals(Attributes[p[1]], Attributes[p[2]]) >= Threshold}

-----------------------------------------------------------------------------
(***************************************************************************)
(* Grouping and chunking                                                   *)
(***************************************************************************)

\* The forest as the map from a claim to find(claim): union(a, b) hangs the
\* root of b, with everything under it, below the root of a.
Union(root, a, b) ==
    [c \in DOMAIN root |-> IF root[c] = root[b] THEN root[a] ELSE root[c]]

UnionFindGroups(active, pairs) ==
    LET root == FoldSet(LAMBDA p, r : Union(r, p[1], p[2]),
                        [c \in active |-> c],
                        {p \in pairs : p[1] \in active /\ p[2] \in active})
    IN  {{d \in active : root[d] = root[c]} : c \in active}

\* The seed is the first of the remaining claims; the rest of its chunk are
\* the claims lexically closest to it, the earlier one first on a tie.
TakeChunk(remaining) ==
    LET seed == Min(remaining)
        rest == remaining \ {seed}
        before(c, d) ==
            LET s == Attributes[seed]  x == Attributes[c]  y == Attributes[d]
            IN  Closer(s, x, y) \/ (~Closer(s, y, x) /\ c < d)
    IN  {seed} \cup
        {c \in rest : Cardinality({d \in rest : before(d, c)}) < MaxSize - 1}

SplitOversized(group) ==
    LET split[r \in SUBSET group] ==
            IF r = {} THEN {}
            ELSE LET chunk == TakeChunk(r) IN {chunk} \cup split[r \ chunk]
    IN  IF Cardinality(group) <= MaxSize THEN {group} ELSE split[group]

\* The chunks form_clusters persists for the claims it regroups.
Chunks(active) ==
    UNION {SplitOversized(g) : g \in UnionFindGroups(active, Similar)}

-----------------------------------------------------------------------------
(***************************************************************************)
(* Reference definition: the connected components of a symmetric relation. *)
(***************************************************************************)

ClosedUnder(s, active, pairs) ==
    \A p \in pairs : (p[1] \in active /\ p[2] \in active) => (p[1] \in s <=> p[2] \in s)

\* The least closed set around c: the intersection of all of them.
Component(c, active, pairs) ==
    {d \in active : \A s \in SUBSET active :
                        c \in s /\ ClosedUnder(s, active, pairs) => d \in s}

Components(active, pairs) == {Component(c, active, pairs) : c \in active}
=============================================================================
