--------------------------- MODULE AnalysisGraph ---------------------------
(***************************************************************************)
(* The structural graph of one analysis version (claims/graph_service.py,  *)
(* graph_repository.py, models/graph_claims.py): providers hand in results *)
(* of nodes and edges, each of which upsert_provider_result stores once,   *)
(* in one transaction.                                                     *)
(*                                                                         *)
(* Two sessions may store results at the same time.  A session reads what  *)
(* the tables hold (BeginUpsert) and later writes what it missed there     *)
(* (CommitUpsert); rows another session committed in between make the      *)
(* database refuse the whole transaction, by the unique keys of nodes and  *)
(* edges.  Nothing is unique about provider runs.  Rows are identified by  *)
(* their canonical keys.                                                   *)
(***************************************************************************)
EXTENDS Integers, Sequences, FiniteSets, Functions, SequencesExt

CONSTANTS
    Payloads,   \* the results providers may hand in, see IsPayload
    Sessions,
    None

VARIABLES
    nodes,          \* canonical key -> number of the run that inserted the row
    edges,          \* <<type, from, to>> -> number of the run that inserted it
    observations,   \* set of [run, kind, object, row]
    providerRuns,   \* sequence of committed runs
    returned,       \* set of <<payload, run>> handed back to callers
    work            \* session -> the operation it is in, or None

graphVars == <<nodes, edges, observations, providerRuns, returned, work>>

GraphProviderStatus ==
    {"pending", "running", "succeeded", "partial", "degraded", "failed", "skipped"}

GraphResolutionType == {"extracted", "inferred", "ambiguous"}

\* A StructuralAnalysisResult; hash is None when the provider computed none.
IsPayload(p) ==
    /\ p.nodes \in Seq(Range(p.nodes)) /\ p.edges \in Seq(Range(p.edges))
    /\ p.status \in GraphProviderStatus
    /\ p.filesFailed \in BOOLEAN
    /\ \A i \in DOMAIN p.edges : p.edges[i].resolution \in GraphResolutionType

\* A hash is a digest of the result it comes with.
ASSUME PayloadsAssumption ==
    /\ \A p \in Payloads : IsPayload(p)
    /\ \A p, q \in Payloads :
          p.hash # None /\ p.hash = q.hash /\ p.provider = q.provider => p = q

GraphInit ==
    /\ nodes = <<>> /\ edges = <<>> /\ observations = {}
    /\ providerRuns = <<>> /\ returned = {}
    /\ work = [s \in Sessions |-> None]

-----------------------------------------------------------------------------
\* edge_canonical_key
EdgeKey(e) == <<e.type, e.from, e.to>>

NodeKeys(p) == {p.nodes[i].key : i \in DOMAIN p.nodes}

\* _provider_payload_hash: without a hash of its own, a result is taken for any
\* other one of the same provider, version and status.
PayloadHash(p) == IF p.hash # None THEN <<p.hash>> ELSE <<p.provider, p.version, p.status>>

\* get_by_payload
RunsOf(p) ==
    {r \in DOMAIN providerRuns :
        /\ providerRuns[r].payload.provider = p.provider
        /\ PayloadHash(providerRuns[r].payload) = PayloadHash(p)}

\* The edges that are kept: the result lists both their ends, wherever else
\* these are.
Resolved(p) == {i \in DOMAIN p.edges : {p.edges[i].from, p.edges[i].to} \subseteq NodeKeys(p)}

EdgeKeys(p) == {EdgeKey(p.edges[i]) : i \in Resolved(p)}

CountOf(p, resolution) == Cardinality({i \in Resolved(p) : p.edges[i].resolution = resolution})

Ambiguous(p) == CountOf(p, "ambiguous") + Cardinality(DOMAIN p.edges \ Resolved(p))

\* _finalize_provider_run
RunStatus(p) ==
    IF p.status = "failed" THEN "failed"
    ELSE IF Ambiguous(p) > 0 \/ p.filesFailed
         THEN IF p.nodes # <<>> THEN "degraded" ELSE "partial"
    ELSE p.status

\* _queue_observation: the first object of a kind and identifier is recorded.
FirstOf(seq, places) ==
    {i \in places : \A j \in places : j < i => seq[j].object # seq[i].object}

ObservedAll(p, run) ==
    {[run |-> run, kind |-> "node", object |-> p.nodes[i].object, row |-> p.nodes[i].key] :
        i \in FirstOf(p.nodes, DOMAIN p.nodes)}
    \cup
    {[run |-> run, kind |-> "edge", object |-> p.edges[i].object, row |-> EdgeKey(p.edges[i])] :
        i \in FirstOf(p.edges, DOMAIN p.edges)}

Observed(p, run) ==
    {[run |-> run, kind |-> "node", object |-> p.nodes[i].object, row |-> p.nodes[i].key] :
        i \in FirstOf(p.nodes, DOMAIN p.nodes)}
    \cup
    {[run |-> run, kind |-> "edge", object |-> p.edges[i].object, row |-> EdgeKey(p.edges[i])] :
        i \in FirstOf(p.edges, Resolved(p))}

-----------------------------------------------------------------------------
(***************************************************************************)
(* upsert_provider_result                                                  *)
(***************************************************************************)

Idle(s) == work[s] = None

\* A result that has a run is answered with that run.
AnswerKnown(s, p) ==
    /\ Idle(s) /\ RunsOf(p) # {}
    /\ \E r \in RunsOf(p) : returned' = returned \cup {<<p, r>>}
    /\ UNCHANGED <<nodes, edges, observations, providerRuns, work>>

BeginUpsert(s, p) ==
    /\ Idle(s) /\ RunsOf(p) = {}
    /\ work' = [work EXCEPT ![s] =
                   [op |-> "upsert", payload |-> p,
                    newNodes |-> NodeKeys(p) \ DOMAIN nodes,
                    newEdges |-> EdgeKeys(p) \ DOMAIN edges]]
    /\ UNCHANGED <<nodes, edges, observations, providerRuns, returned>>

\* The unique keys of graph_nodes and graph_edges.
UncheckedKeys(w) == TRUE
KeysAreFree(w) ==
    w.newNodes \cap DOMAIN nodes = {} /\ w.newEdges \cap DOMAIN edges = {}

\* Rows that are there keep what the first result said of them.
Inserted(table, keys, run) ==
    [k \in DOMAIN table \cup keys |-> IF k \in keys THEN run ELSE table[k]]

NextRunUnflushed == Len(providerRuns)
NextRun == Len(providerRuns) + 1

CommitUpsert(s) ==
    LET w   == work[s]
        p   == w.payload
        run == NextRun
    IN  /\ ~Idle(s) /\ w.op = "upsert"
        /\ KeysAreFree(w)
        /\ nodes' = Inserted(nodes, w.newNodes, run)
        /\ edges' = Inserted(edges, w.newEdges, run)
        /\ observations' = observations \cup Observed(p, run)
        /\ providerRuns' =
               Append(providerRuns,
                      [payload |-> p, status |-> RunStatus(p),
                       extracted |-> CountOf(p, "extracted"),
                       inferred |-> CountOf(p, "inferred"), ambiguous |-> Ambiguous(p)])
        /\ returned' = returned \cup {<<p, run>>}
        /\ work' = [work EXCEPT ![s] = None]

\* IntegrityError: the caller rolls everything back.
RefuseUpsert(s) ==
    /\ ~Idle(s) /\ work[s].op = "upsert"
    /\ ~KeysAreFree(work[s])
    /\ work' = [work EXCEPT ![s] = None]
    /\ UNCHANGED <<nodes, edges, observations, providerRuns, returned>>

-----------------------------------------------------------------------------
(***************************************************************************)
(* Properties                                                              *)
(***************************************************************************)

\* Every committed run is complete: each node of its result, and each edge with
\* both ends in the result, has a row, though another result may have inserted
\* it; a run that reports success left no edge out; each row an observation
\* cites exists, and so do both ends of each edge; and who hands in a result that
\* carries a hash is answered with a run of that result.
RunsAreComplete ==
    /\ \A r \in DOMAIN providerRuns :
          LET p    == providerRuns[r].payload
              kept == {i \in DOMAIN p.edges : EdgeKey(p.edges[i]) \in DOMAIN edges}
          IN  /\ NodeKeys(p) \subseteq DOMAIN nodes
              /\ \A i \in DOMAIN p.edges \ kept : {p.edges[i].from, p.edges[i].to} \ NodeKeys(p) # {}
              /\ providerRuns[r].status = "succeeded" => kept = DOMAIN p.edges
    /\ \A k \in DOMAIN edges : {k[2], k[3]} \subseteq DOMAIN nodes
    /\ \A o \in observations :
          o.row \in (IF o.kind = "node" THEN DOMAIN nodes ELSE DOMAIN edges)
    /\ \A answer \in returned :
          answer[1].hash # None => providerRuns[answer[2]].payload = answer[1]

\* Two sessions that store one result at the same time both get a run, as no
\* key forbids it, but the rows stay the first one's: the second adds none.
OverlapAddsNothing ==
    \A r, q \in DOMAIN providerRuns :
        r < q /\ providerRuns[r].payload = providerRuns[q].payload
            => q \notin Range(nodes) \cup Range(edges)
=============================================================================
