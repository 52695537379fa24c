---------------------------- MODULE GraphSearch ----------------------------
(***************************************************************************)
(* neighbors, related_tests and find_path of graph_service.py: breadth     *)
(* first searches of the graph, one query of the edges per level, while    *)
(* results are being stored.  An edge is followed in both directions.      *)
(*                                                                         *)
(* The query has a limit and no order: when more edges touch the frontier, *)
(* any of them may be missing.  search.reach and search.capped are history  *)
(* for the properties: what was within reach when the search started, and  *)
(* whether a cap cut it short.                                             *)
(***************************************************************************)
EXTENDS AnalysisGraph

CONSTANTS
    Searches,       \* the searches asked for: [op, from, to, depth, maxNodes, types]
    TestNodes,      \* nodes that are tests, BDD scenarios or test symbols
    EdgesPerNode,   \* the query's limit is maxNodes times this (4)
    MaxDepth,       \* 3
    MostNodes       \* 200

ASSUME SearchesAssumption ==
    /\ MaxDepth \in Nat \ {0} /\ MostNodes \in Nat \ {0}
    /\ \A q \in Searches : q.depth \in Int /\ q.maxNodes \in Int

VARIABLE search     \* the search under way, or None

searchVars == <<search>>

Clamp(x, top) == IF x < 1 THEN 1 ELSE IF x > top THEN top ELSE x

\* The edges a search may follow; no types means all.
Followed(types) == {e \in DOMAIN edges : types = {} \/ e[1] \in types}

Ends(e) == {e[2], e[3]}

\* Nodes within d edges of a node.
Within(es, from, d) ==
    LET reach[i \in 0..d] ==
            IF i = 0 THEN {from}
            ELSE reach[i - 1] \cup UNION {Ends(e) : e \in {x \in es : Ends(x) \cap reach[i - 1] # {}}}
    IN  reach[d]

SearchInit == search = None

\* The caps are clamped; a path from a node to itself needs no query.
StartSearch(q) ==
    LET depth == Clamp(q.depth, MaxDepth)
    IN  /\ search = None
        /\ search' =
             [ask |-> q, depth |-> depth, maxNodes |-> Clamp(q.maxNodes, MostNodes),
              level |-> 0, visited |-> {q.from}, frontier |-> {q.from},
              parent |-> <<>>, out |-> {}, found |-> FALSE, done |-> FALSE,
              reach |-> [d \in 0..depth |-> Within(Followed(q.types), q.from, d)], capped |-> FALSE]

SameNode ==
    /\ search # None /\ ~search.done
    /\ search.ask.op = "path" /\ search.ask.from = search.ask.to
    /\ search' = [search EXCEPT !.done = TRUE, !.found = search.ask.from \in DOMAIN nodes]

Searching ==
    /\ search # None /\ ~search.done
    /\ ~(search.ask.op = "path" /\ search.ask.from = search.ask.to)

\* The loop's exits: every level done, nothing new, or enough nodes.
Exhausted ==
    \/ search.level = search.depth \/ search.frontier = {}
    \/ Cardinality(search.visited) >= search.maxNodes

GiveUp ==
    /\ Searching /\ Exhausted
    /\ search' = [search EXCEPT !.done = TRUE,
                     !.capped = @ \/ (search.level < search.depth /\ search.frontier # {})]

IncidentForward == {e \in Followed(search.ask.types) : e[2] \in search.frontier}
Incident == {e \in Followed(search.ask.types) : Ends(e) \cap search.frontier # {}}

\* list_incident_limited
EdgeBatches ==
    LET limit == search.maxNodes * EdgesPerNode
    IN  IF Cardinality(Incident) <= limit THEN {Incident} ELSE kSubset(limit, Incident)

\* _expand_path_frontier: every new node gets one of the edges that lead to it,
\* in whichever order the rows come.
ExpandPath ==
    /\ Searching /\ ~Exhausted /\ search.ask.op = "path"
    /\ \E batch \in EdgeBatches :
         LET new      == (UNION {Ends(e) : e \in batch}) \ search.visited
             edgesTo(n) == {e \in batch : n \in Ends(e) /\ Ends(e) \cap search.frontier # {}}
         IN  \E via \in {f \in [new -> batch] : \A n \in new : f[n] \in edgesTo(n)} :
               search' = [search EXCEPT
                   !.level = @ + 1, !.visited = @ \cup new, !.frontier = new,
                   !.parent = [n \in DOMAIN @ \cup new |-> IF n \in new THEN via[n] ELSE @[n]],
                   !.found = search.ask.to \in new, !.done = search.ask.to \in new,
                   !.capped = @ \/ batch # Incident]

\* One level of neighbors: all edges of the batch are answered, the nodes only
\* up to the cap.
ExpandNeighbors ==
    /\ Searching /\ ~Exhausted /\ search.ask.op # "path"
    /\ \E batch \in EdgeBatches :
         LET met  == (UNION {Ends(e) : e \in batch}) \ search.visited
             room == search.maxNodes - Cardinality(search.visited)
         IN  \E new \in (IF Cardinality(met) <= room THEN {met} ELSE kSubset(room, met)) :
               search' = [search EXCEPT
                   !.level = @ + 1, !.visited = @ \cup new, !.frontier = new,
                   !.out = @ \cup batch,
                   !.capped = @ \/ batch # Incident \/ new # met]

\* The caller has its answer.
Answer ==
    /\ search # None /\ search.done
    /\ search' = None

SearchStep == SameNode \/ GiveUp \/ ExpandPath \/ ExpandNeighbors \/ Answer

PathBackwards ==
    LET back[n \in search.visited] ==
            IF n = search.ask.from THEN <<>>
            ELSE LET e == search.parent[n]
                 IN  <<e>> \o back[CHOOSE m \in Ends(e) : m # n]
    IN  back[search.ask.to]
\* _reconstruct_path: back from the destination, the edges in order.
PathTo ==
    LET back[n \in search.visited] ==
            IF n = search.ask.from THEN <<>>
            ELSE LET e == search.parent[n]
                 IN  Append(back[CHOOSE m \in Ends(e) : m # n], e)
    IN  back[search.ask.to]

\* The rows an answer of neighbors has, and for related_tests the tests of them.
Wanted(ns) == {n \in ns \cap DOMAIN nodes : search.ask.op = "tests" => n \in TestNodes}

AnsweredNodes == Wanted(search.visited)

-----------------------------------------------------------------------------
(***************************************************************************)
(* Properties                                                              *)
(***************************************************************************)

Answered(op) == search # None /\ search.done /\ search.ask.op = op

\* A path that is found is one: existing edges, each touching the next, from one
\* node to the other, no more than the depth, and no longer than the shortest
\* path there was when the search started -- unless a cap hid that one.  And
\* "not found" means, unless a cap cut the search short, that there was no path
\* of that depth when the search started.
PathAnswersAreHonest ==
    Answered("path") /\ search.ask.from # search.ask.to =>
        IF search.found
        THEN LET path == PathTo
             IN  /\ Range(path) \subseteq DOMAIN edges /\ Len(path) \in 1..search.depth
                 /\ search.ask.from \in Ends(path[1]) /\ search.ask.to \in Ends(path[Len(path)])
                 /\ \A i \in 2..Len(path) : Ends(path[i - 1]) \cap Ends(path[i]) # {}
                 /\ ~search.capped =>
                        \A d \in 0..(Len(path) - 1) : search.ask.to \notin search.reach[d]
        ELSE search.capped \/ search.ask.to \notin search.reach[search.depth]

\* The answer of neighbors is one piece -- each node is reached over edges of
\* the answer within the depth -- has at most the nodes asked for, and without a
\* cap lacks none that was within reach when the search started.
NeighborhoodIsWhole ==
    search # None /\ search.done /\ search.ask.op # "path" =>
        /\ AnsweredNodes \subseteq Within(search.out, search.ask.from, search.depth)
        /\ Cardinality(AnsweredNodes) <= search.maxNodes
        /\ ~search.capped => Wanted(search.reach[search.depth]) \subseteq AnsweredNodes
=============================================================================
