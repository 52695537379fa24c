--------------------------- MODULE MCClaimClusters ---------------------------
(***************************************************************************)
(* ClaimClusters with the chunks computed by ClaimGrouping.  Three claims: *)
(* 1 and 2 share a subject, 2 and 3 a graph node, so the three form one    *)
(* group, which MaxSize = 2 splits, and a preserved claim changes the      *)
(* grouping of the rest.                                                   *)
(***************************************************************************)
EXTENDS ClaimClusters, FiniteSetsExt, TLC

CONSTANTS MaxSize

Blank == [subject |-> None, path |-> None, node |-> None, role |-> "code",
          action |-> {}, numbers |-> {}, words |-> {}]

MCAttributes ==
    (1 :> [Blank EXCEPT !.subject = "invoice", !.words = {"invoice", "limit"}])
 @@ (2 :> [Blank EXCEPT !.subject = "invoice", !.node = "n", !.words = {"amount"}])
 @@ (3 :> [Blank EXCEPT !.node = "n", !.words = {"invoice", "limit", "approval"}])
 @@ (4 :> [Blank EXCEPT !.words = {"refund"}])

Grouping == INSTANCE ClaimGrouping WITH Attributes <- MCAttributes

MCChunking == [active \in SUBSET Claims |-> Grouping!Chunks(active)]

\* Union-find returns the connected components, whatever the relation.
ASSUME GroupsAreComponents ==
    \A pairs \in SUBSET {p \in (1..4) \X (1..4) : p[1] < p[2]} :
        \A active \in {1..4, 1..3, {1, 3, 4}} :
            Grouping!UnionFindGroups(active, pairs) = Grouping!Components(active, pairs)

\* No chunk is larger than the configured size.
ASSUME ChunksRespectMaxSize ==
    \A active \in SUBSET Claims, chunk \in UNION {MCChunking[a] : a \in SUBSET Claims} :
        chunk \in MCChunking[active] => Cardinality(chunk) <= MaxSize

ClusterSymmetry == Permutations(Clusters)
=============================================================================
