---------------------------- MODULE ProjectReset ----------------------------
(***************************************************************************)
(* Emptying a project: the two bulk purges of persistence,                 *)
(* project_analysis_reset_repository.py and demo_project_reset_            *)
(* repository.py, against the foreign keys of models/*.py.                 *)
(*                                                                         *)
(* A table of the project has rows or not, and the nullable references     *)
(* between two tables are set or not; a statement deletes all rows of a    *)
(* table, or sets a reference to NULL.  A delete is refused while a row of *)
(* another table refers to a row of this one, and the whole purge is       *)
(* rolled back with it.  References within a table are left out: they go   *)
(* with the statement that deletes the rows.  So are references to the     *)
(* project, its organization and its users, which both purges keep, and    *)
(* that of the project to its active version, which a delete sets to NULL. *)
(***************************************************************************)
EXTENDS Integers, Sequences, FiniteSets

CONSTANT Purges      \* which purges may run: "analysis", "demo"

-----------------------------------------------------------------------------
(***************************************************************************)
(* The foreign keys: for each table the tables its NOT NULL columns refer  *)
(* to and those its nullable columns may refer to.                         *)
(***************************************************************************)

Refers(needs, may) == [needs |-> needs, may |-> may]

RuleTables ==
    [rules                         |-> Refers({}, {"analysis_versions"}),
     rule_versions                 |-> Refers({"rules"}, {"scan_runs"}),
     rule_evidence                 |-> Refers({"rules"}, {"rule_versions", "scan_runs", "source_files"}),
     rule_relationships            |-> Refers({"rules"}, {"analysis_versions"}),
     rule_relationship_suggestions |-> Refers({"rules"}, {"analysis_versions"}),
     rule_source_claims            |-> Refers({}, {"analysis_versions", "rules", "scan_runs", "rule_evidence"})]

ReviewTables ==
    [rule_conflicts        |-> Refers({}, {"analysis_versions", "rules", "scan_runs"}),
     rule_decisions        |-> Refers({"rules"}, {}),
     rule_reviews          |-> Refers({"rules"}, {}),
     implementation_gaps   |-> Refers({}, {"analysis_versions", "rules"}),
     export_documents      |-> Refers({}, {"analysis_versions", "scan_runs"}),
     search_index_records  |-> Refers({}, {"analysis_versions"}),
     rule_trace_links      |-> Refers({"rules"}, {"source_files", "source_symbols"}),
     rule_lineage          |-> Refers({"rules"}, {}),
     semantic_observations |-> Refers({"analysis_versions"}, {"graph_nodes"})]

ScanTables ==
    [classification_overrides |-> Refers({}, {}),
     analysis_versions |-> Refers({}, {"scan_runs", "scan_configs"}),
     scan_configs      |-> Refers({}, {"scan_runs"}),
     source_locations  |-> Refers({}, {"scan_configs"}),
     scan_runs         |-> Refers({}, {"scan_configs"}),
     source_files      |-> Refers({}, {"scan_runs", "source_locations", "classification_overrides"})]

SourceTables ==
    [source_tree_nodes |-> Refers({"scan_runs"}, {"source_files"}),
     source_symbols    |-> Refers({"source_files"}, {}),
     coverage_reports  |-> Refers({}, {"analysis_versions", "scan_runs", "source_files"}),
     coverage_files    |-> Refers({"coverage_reports"}, {"source_files"}),
     coverage_lines    |-> Refers({"coverage_files"}, {"graph_nodes"}),
     coverage_branches |-> Refers({"coverage_files"}, {}),
     test_cases        |-> Refers({}, {"source_files"}),
     test_coverage_links       |-> Refers({"test_cases", "coverage_lines"}, {}),
     rule_coverage_assessments |-> Refers({"rules"}, {"coverage_reports"})]

RunTables ==
    [runtime_evidence_imports |-> Refers({}, {"analysis_versions", "scan_runs"}),
     runtime_log_evidence     |-> Refers({}, {"rules", "runtime_evidence_imports"}),
     analysis_manifests       |-> Refers({"scan_runs"}, {"analysis_versions"}),
     analysis_manifest_files  |-> Refers({"analysis_manifests"}, {"source_files"}),
     composite_pipeline_runs  |-> Refers({"analysis_versions"}, {"scan_runs"})]

EventTables ==
    [runtime_events      |-> Refers({}, {"analysis_versions", "runtime_evidence_imports", "graph_nodes"}),
     runtime_event_links |-> Refers({"runtime_events"}, {"rules", "source_claims"})]

AiTables ==
    [ai_task_runs   |-> Refers({}, {}),
     ai_suggestions |-> Refers({"ai_task_runs"}, {}),
     ai_model_usage |-> Refers({}, {"scan_runs"}),
     audit_events   |-> Refers({}, {})]

TraceTables ==
    [ai_investigation_traces |-> Refers({"analysis_versions"}, {"claim_clusters"})]

AstTables ==
    [ast_parse_runs    |-> Refers({"analysis_versions"}, {"scan_runs"}),
     ast_payloads      |-> Refers({}, {}),
     ast_payload_blobs |-> Refers({"ast_payloads"}, {}),
     ast_documents     |-> Refers({"analysis_versions", "ast_parse_runs", "ast_payloads", "source_files"},
                                  {"scan_runs"}),
     ast_node_links    |-> Refers({"ast_documents"}, {"graph_nodes", "source_symbols", "rule_evidence"})]

GraphTables ==
    [graph_provider_runs |-> Refers({}, {"analysis_versions", "scan_runs"}),
     graph_nodes         |-> Refers({"analysis_versions"}, {}),
     graph_edges         |-> Refers({"analysis_versions", "graph_nodes"}, {}),
     graph_observations  |-> Refers({"analysis_versions", "graph_provider_runs"},
                                    {"graph_nodes", "graph_edges"}),
     graph_communities   |-> Refers({"analysis_versions"}, {}),
     graph_hyperedges    |-> Refers({"analysis_versions"}, {})]

ClaimTables ==
    [source_claims         |-> Refers({"analysis_versions"}, {"scan_runs", "graph_nodes"}),
     source_claim_evidence |-> Refers({"source_claims"}, {"graph_nodes", "graph_edges"})]

ClusterTables ==
    [claim_clusters            |-> Refers({"analysis_versions"}, {}),
     claim_cluster_memberships |-> Refers({"analysis_versions", "claim_clusters", "source_claims"}, {}),
     claim_embeddings          |-> Refers({"analysis_versions"}, {"source_claims"})]

TestTables ==
    [test_evidence_cases |-> Refers({"analysis_versions"}, {"scan_runs", "graph_nodes"}),
     test_assertions     |-> Refers({"test_evidence_cases"}, {}),
     test_fixtures       |-> Refers({"analysis_versions"}, {}),
     test_executions     |-> Refers({"analysis_versions", "test_evidence_cases"}, {}),
     bdd_features        |-> Refers({"analysis_versions"}, {}),
     bdd_scenarios       |-> Refers({"analysis_versions", "bdd_features"}, {"graph_nodes"}),
     bdd_steps           |-> Refers({"analysis_versions", "bdd_scenarios"}, {}),
     bdd_step_links      |-> Refers({"analysis_versions", "bdd_steps"}, {"graph_nodes"})]

ForeignKeys ==
    {RuleTables, ReviewTables, ScanTables, SourceTables, RunTables, EventTables, AiTables,
     TraceTables, AstTables, GraphTables, ClaimTables, ClusterTables, TestTables}

Tables == UNION {DOMAIN keys : keys \in ForeignKeys}

\* A table is in one of them.
KeysOf(t) == {keys[t] : keys \in {k \in ForeignKeys : t \in DOMAIN k}}

Needs(t) == UNION {k.needs : k \in KeysOf(t)}

May(t) == UNION {k.may : k \in KeysOf(t)}

-----------------------------------------------------------------------------
(***************************************************************************)
(* The statements of the purges, in order                                  *)
(***************************************************************************)

Row == "row"

Delete(t) == [table |-> t, clears |-> Row]

SetNull(t, parent) == [table |-> t, clears |-> parent]

Deletes(ts) == [i \in DOMAIN ts |-> Delete(ts[i])]

RulesPurgeParentsFirst ==
    Deletes(<<"analysis_versions", "rule_versions", "rule_relationships",
              "rule_relationship_suggestions", "ai_suggestions", "ai_task_runs", "rules">>)

\* The end of purge_analysis_outputs: rules before the versions they refer to.
RulesPurge ==
    Deletes(<<"rule_versions", "rule_relationships", "rule_relationship_suggestions",
              "ai_suggestions", "ai_task_runs", "rules", "analysis_versions">>)

\* What both purges delete of rules' evidence, coverage and run-time evidence.
EvidencePurge ==
    Deletes(<<"rule_source_claims", "rule_evidence", "rule_coverage_assessments",
              "rule_trace_links", "rule_decisions", "rule_reviews", "rule_conflicts",
              "implementation_gaps", "runtime_log_evidence", "test_coverage_links",
              "coverage_lines", "coverage_branches", "coverage_files", "coverage_reports",
              "runtime_evidence_imports">>)

\* purge_analysis_outputs
AnalysisPurge ==
    EvidencePurge \o Deletes(<<"export_documents", "search_index_records">>) \o RulesPurge

\* _purge_claims_and_composite, _purge_bdd_and_test_evidence
ClaimsPurge ==
    Deletes(<<"ai_investigation_traces", "claim_cluster_memberships", "claim_embeddings",
              "claim_clusters", "source_claim_evidence", "source_claims",
              "composite_pipeline_runs",
              "bdd_step_links", "bdd_steps", "bdd_scenarios", "bdd_features",
              "test_assertions", "test_executions", "test_fixtures", "test_evidence_cases">>)

\* _purge_graph_stack, _purge_manifests
GraphPurge ==
    Deletes(<<"graph_observations", "graph_edges", "graph_hyperedges", "graph_communities",
              "graph_nodes", "graph_provider_runs", "semantic_observations",
              "analysis_manifest_files", "analysis_manifests">>)

SourcesPurgeWithoutClearing ==
    Deletes(<<"source_symbols", "test_cases", "source_files", "export_documents",
              "search_index_records", "audit_events", "ai_model_usage",
              "rule_versions", "rules", "analysis_versions", "scan_runs", "scan_configs">>)

\* _purge_rules_coverage_and_sources, after the evidence
SourcesPurge ==
    Deletes(<<"source_symbols", "test_cases", "source_files", "export_documents",
              "search_index_records", "audit_events", "ai_model_usage">>)
    \o <<SetNull("scan_configs", "scan_runs"), SetNull("source_locations", "scan_configs")>>
    \o Deletes(<<"rule_versions", "rules", "analysis_versions", "scan_runs", "scan_configs">>)

\* purge_demo_project_children
DemoPurge == ClaimsPurge \o GraphPurge \o EvidencePurge \o SourcesPurge

Statements(purge) == IF purge = "analysis" THEN AnalysisPurge ELSE DemoPurge

-----------------------------------------------------------------------------

VARIABLES
    purge,      \* the purge that runs
    rows,       \* the tables that have rows of the project
    refs,       \* the nullable references that are set: <<child, parent>>
    todo,       \* the statements still to run
    outcome     \* "running", "done" or "refused"

vars == <<purge, rows, refs, todo, outcome>>

\* The tables that must have rows for the given ones to have some.
WithParents(ts) ==
    LET up[n \in 0 .. 5] ==
            IF n = 0 THEN ts
            ELSE up[n - 1] \cup UNION {Needs(t) : t \in up[n - 1]}
    IN  up[5]

\* One table, any of its references, and what these need.  A delete is
\* refused because of a single reference, so one at a time shows them all.
Init ==
    /\ purge \in Purges
    /\ \E t \in Tables : \E parents \in SUBSET May(t) :
          /\ rows = WithParents({t} \cup parents)
          /\ refs = {t} \X parents
    /\ todo = Statements(purge)
    /\ outcome = "running"

\* The tables with rows that refer to rows of this one.
ReferrersRequired(t) == {c \in rows \ {t} : t \in Needs(c)}
Referrers(t) == {c \in rows \ {t} : t \in Needs(c) \/ <<c, t>> \in refs}

Step(s) == outcome = "running" /\ todo # <<>> /\ s = Head(todo)

DeleteRows(s) ==
    /\ Step(s) /\ s.clears = Row
    /\ s.table \in rows => Referrers(s.table) = {}
    /\ rows' = rows \ {s.table}
    /\ refs' = {r \in refs : r[1] # s.table}
    /\ todo' = Tail(todo)
    /\ UNCHANGED <<purge, outcome>>

ClearReference(s) ==
    /\ Step(s) /\ s.clears # Row
    /\ refs' = refs \ {<<s.table, s.clears>>}
    /\ todo' = Tail(todo)
    /\ UNCHANGED <<purge, rows, outcome>>

Refuse(s) ==
    /\ Step(s) /\ s.clears = Row
    /\ s.table \in rows /\ Referrers(s.table) # {}
    /\ outcome' = "refused"
    /\ UNCHANGED <<purge, rows, refs, todo>>

Finish ==
    /\ outcome = "running" /\ todo = <<>>
    /\ outcome' = "done"
    /\ UNCHANGED <<purge, rows, refs, todo>>

Next ==
    \/ \E s \in {Statements(purge)[i] : i \in DOMAIN Statements(purge)} :
          DeleteRows(s) \/ ClearReference(s) \/ Refuse(s)
    \/ Finish

Spec == Init /\ [][Next]_vars

-----------------------------------------------------------------------------
(***************************************************************************)
(* Properties                                                              *)
(***************************************************************************)

\* The database's own promise: rows refer to rows, required or not.
TypeOK ==
    /\ purge \in Purges
    /\ \A t \in rows : t \in Tables /\ Needs(t) \subseteq rows
    /\ refs \subseteq rows \X rows
    /\ \A r \in refs : r[2] \in May(r[1])
    /\ outcome \in {"running", "done", "refused"}

Touched == {Statements(purge)[i].table : i \in DOMAIN Statements(purge)}

\* Among the tables a purge touches the order of its statements is right (the
\* comment in purge_analysis_outputs: rules "must be removed before the versions
\* themselves"): a refused delete meets references of other tables only.
OrderIsSafe == outcome = "refused" => Referrers(Head(todo).table) \cap Touched = {}

\* That much holds of purge_analysis_outputs, whatever rows a project has.
AnalysisOrderIsSafe == purge = "analysis" => OrderIsSafe

\* The demo purge meets references of its own tables at graph_nodes alone, whose
\* rows it deletes before the observations and the coverage lines on them.
DemoOrderSafeButForNodes ==
    (purge = "demo" /\ outcome = "refused") =>
        \/ Referrers(Head(todo).table) \cap Touched = {}
        \/ /\ Head(todo) = Delete("graph_nodes")
           /\ Referrers("graph_nodes") \cap Touched \subseteq {"semantic_observations", "coverage_lines"}
=============================================================================
