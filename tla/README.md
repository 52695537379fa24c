# RuleAtlas packages: specification and proofs

RuleAtlas reads a code base, collects *claims* about its business rules, groups
them into *clusters* and turns these into *rules*.  The repository holds the
eight Python packages below the application; the application itself
(`apps/api`: sessions, commits, workers, HTTP) is not part of it.  This
directory specifies what the packages do with their state, checks it with TLC
and proves the main results with TLAPS.

## 1. The system

All state is in one SQL database (PostgreSQL, READ COMMITTED).  There are no
threads, locks or coroutines in the packages: concurrency is several database
sessions, each running one operation.  Repositories of `persistence` flush and
never commit; the services of `claims` commit by themselves.

| Component | State | Operations | Interacts with |
| --- | --- | --- | --- |
| Claim clustering (`claims/clustering/cluster_service.py`) | `claim_clusters`, `claim_cluster_memberships` | form, lock, unlock, merge, split | reads source claims and AI investigation traces; writes audit events |
| Cluster canonicalization (`canonicalize.py`, `cluster_roles.py`) | roles, status and attributes of clusters, conflicts | assign roles, choose primaries, attach, persist supersession conflicts | runs on what clustering formed |
| AST store (`persistence/.../ast_write_repository.py`) | `ast_parse_runs`, `ast_documents`, `ast_payloads`, `ast_payload_blobs`, `ast_node_links` | create run, replace document, create payload, pack, decode, link | owned by analysis versions; read by `ast_read_repository.py` |
| Analysis versions (`analysis_version_repository.py`) | status of versions, the project's active pointer | create, finalize, fail, supersede, activate | almost every table refers to a version |
| AST retention (`ast_lifecycle_repository.py`) | the AST tables | delete expired versions, report orphans and usage | reads version status |
| Project purges (`project_analysis_reset_repository.py`, `demo_project_reset_repository.py`) | all tables of a project | purge analysis outputs, purge a demo | every foreign key |
| Graph (`claims/graph`, `graph_repository.py`) | nodes, edges, provider runs, observations | upsert a provider's result, neighbours, paths | claims and BDD steps refer to nodes |
| Claims (`claim_service.py`, `ast_normalization.py`, `structured_semantics.py`) | `source_claims`, evidence | persist one, persist a batch | input of clustering |
| Rules (`claims/rules`, `rule_repository.py`) | rules, versions, lineage, reviews | identity, carry-forward, merge, supersede, de-duplicate, reclassify | refer to versions, claims, runs |
| Gaps and conflicts (`claims/gaps`, `claims/conflicts`) | gaps, conflicts | generate for a version | read claims and evidence |
| AI (`ai/investigation`, `ai/synthesis`, `ai/providers`, `ai/budget.py`) | frozen decisions, budgets, usage rows, provider connections | decide, validate a proposal, probe a provider, record usage | cites AST nodes; traces pin clusters |
| AST codec and reads (`ast_payload_codec.py`, `ast_read_repository.py`) | none | encode, decode, bounded traversals | the blobs of the AST store |
| BDD (`extraction/bdd`) | features, scenarios, steps, links | parse Gherkin, ingest, link steps, make claims | graph nodes, claims |
| Discovery (`discovery-core`) | none | count lines, resolve types, classify, build the tree, show and find paths, walk a workspace | fills the inventory |
| Scans and sources (`scan_run_repository.py`, `source_file_repository.py`) | scan runs, source files, tree | queue, claim, complete, inventory | versions |
| Audit (`append_only.py`, `audit.py`) | audit events | record, refuse update and delete, expire | all services |
| Accounts, tickets | users, tokens, organizations, tickets | queries | none here |
| Contracts, exports, demo | none | enums, records, classification of scaffolding, formatting | libraries of the others |

What makes the behaviour hard:

* **read, then write.** Every operation that depends on more than one row reads
  first and writes later; other sessions commit in between, and no row is
  locked or read again.
* **shared and preserved rows.** Payloads are shared between versions, clusters
  are kept because of a lock or a trace, documents because they are protected.
  What is removed must not be referred to by what stays.
* **legal sequences.** Merging into a merged cluster or into itself, splitting
  and locking a child, packing a payload through a second document, failing the
  active version: nothing forbids them.
* **unordered answers.** Queries without an order, or with a limit, give any of
  their rows: primaries, duplicate groups and paths depend on what comes first.
* **work while the world changes.** A worker pages through files that are being
  reclassified, a model through trees that are being rewritten.
* **refusals.** A foreign key or unique constraint refuses an operation in the
  middle, and everything it did is rolled back.

There are no timeouts and no retries in the packages.  The application schedules
all operations, and the packages promise the end of only two loops: the worker
that pages through the eligible files ("every eligible file is eventually
attempted", `source_file_repository.py`) and a graph search, which its caps
end.  `Extraction` assumes weak fairness of these two, since each goes on by
itself once it runs, and of nothing else: no session need ever begin or finish
an operation, and no override need ever come.  All other specifications are
`Init /\ [][Next]_vars`.

For each component, what makes it correct: *clustering* - a claim is in exactly
one cluster after a re-form, locked clusters and their members stay put; *AST
store* - links resolve, packed documents decode, trees never change; *versions
and retention* - the active version is not superseded, live versions lose
nothing; *purges* - no delete meets a reference that a later statement of the
purge removes; *canonicalization* - a rerun gives what a first run gives;
*graph* - a result stored twice adds nothing, a search answers truly or says
that it was cut; *claims* - evidence comes once, from the draft the claim was
made of; *rules* - a review is carried forward only on unchanged evidence,
lineage explains where evidence went; *AI* - pages put together are the tree's,
a claim keeps the evidence it was accepted for; *BDD* - the tables follow the
files, as far as the database lets them; *discovery* - every file is counted
once and trees agree with totals; *audit* - events are not changed or removed.

## 2. Modules

| Module | Models |
| --- | --- |
| `ClaimGrouping` | the pair score, union-find and chunking of `cluster_service.py`, and connected components as their reference |
| `ClaimClusters` | clusters, memberships, traces and the five operations, split at their read and their commit |
| `ClaimAssignment` | what clusters promise: an assignment of claims to clusters, some of them pinned |
| `AstStore` | parse runs, documents, payloads with their blobs, links |
| `AstLifecycle` | analysis versions, the active pointer and retention, over `AstStore` |
| `ProjectReset` | the two purges over the foreign keys of all models |
| `ClaimSemantics` | what texts of claims say: families, domains, roles, conflicts |
| `Canonicalization` | canonicalization runs over `ClaimClusters` |
| `AnalysisGraph` | nodes, edges, observations and runs; the upsert of a result |
| `GraphSearch` | neighbors, related tests and paths, over `AnalysisGraph` |
| `SourceClaims` | claims and their evidence, over the graph |
| `BddFeatures` | features, steps and their links, over claims and graph |
| `Extraction` | all four, with the worker and the sessions around them |
| `RuleScoring`, `RuleSuggestions` | confidence and gaps; suggestions and duplicate groups |
| `Rules` | rules, evidence, lineage, reviews, suggestions over versions |
| `AstReads` | bounded reads of trees |
| `AstProposals` | validation, normalization and merging of proposals |
| `AgentModels`, `AgentContracts` | which models, budgets, steps and outcomes are valid |
| `Investigation` | one investigation, over the four above |
| `LineMetrics`, `FileTypes`, `Inventory`, `SandboxScan` | the discovery core |
| `MC*` | instances for TLC; `MCDiscovery` holds what the discovery operators promise |
| `ClaimClusters_proofs`, `AstLifecycle_proofs`, `Canonicalization_proofs`, `Extraction_proofs`, `Rules_proofs`, `Investigation_proofs`, `ProjectReset_proofs` | theorems about the module of that name and those it extends, and lemmas about their operators |
| `FiniteInduction` | lemmas of induction, recursion and sums for the proofs |

The modules compose in five systems, each with one next-state relation:
`ClaimClusters` (extended by `Canonicalization`), `AstLifecycle` over
`AstStore`, `Extraction` over `BddFeatures`, `SourceClaims`, `GraphSearch` and
`AnalysisGraph`, `Rules` over the two modules of operators, and `Investigation`
over `AstReads`, `AstProposals` and `AgentModels`.

### ClaimGrouping, ClaimClusters, ClaimAssignment

`clusters` maps a cluster to its status, lock flag, canonical key and parent;
`rows` maps a membership row (named by its claim and the cluster it was created
in: rows are moved by updates, and keep their identity) to its present cluster;
`traces` are the clusters a completed AI investigation cites; `pend` is what a
session has read and not yet committed.

`FormRead` / `FormCommit` / `FormAbort` are `form_clusters` with
`_reset_unlocked_clusters` and `_persist_cluster_for_chunk`; `MergeRead`,
`SplitRead` and their commits and aborts are `merge_clusters` and
`split_cluster`; `LockCluster` and `UnlockCluster` write without a decision and
are one step.  An abort is the exception a caller gets when a foreign key, a
unique key or the row count of an update refuses the flush.  Which chunks a set
of claims gives is the constant `Chunking`: the specification assumes only that
it partitions the set (`ChunkingAssumption`), so the theorems hold for every
score; in the TLC instance it is `ClaimGrouping!Chunks` of three claims, the
first two with a common subject and the last two with a common graph node: one
group, which `MaxSize = 2` splits, and which falls apart when a preserved
cluster holds the claim in the middle.  `MCClaimClusters` also evaluates that
union-find gives the connected components, for every relation on four claims,
and that no chunk exceeds the size; TLC checks `ChunkingAssumption` itself.

Scores are in hundredths and a ratio is compared by cross-multiplication.
Embeddings are off, as by default.  The audit event after each commit touches
no cluster table and is left out; so are the labels, roles and scores that
canonicalization owns.

### AstStore, AstLifecycle

`runs`, `payloads`, `docs` and `links` are the AST tables; a payload maps to
its tree, or to `NoBlob` before it is packed; a document has its content and
its node count.  `ReplaceDocument` is `replace_for_source` (with
`delete_scoped` and `create_from_record`), `PersistPacked` is
`persist_packed_for_document`, `AddLink` is `bulk_create_for_document` for one
link, `DeleteExpired` is the second half of `delete_expired_versions`.
`AstLifecycle` adds the status of versions and the active pointer, and splits
activation and retention after the query they depend on.

Abstractions: one project; a version has at most one parse run and its
documents belong to it; the parser identity is part of the content; a tree is
its set of node keys; `update_outcome` (counters and status of a run) and links
to symbols, graph nodes or evidence are left out, as is the legacy pointer in
`settings_json`.  How activation is composed of `supersede_active_versions`,
`set_active_analysis_version_id` and `mark_ready_for_activation` is the
application's; the model runs all three in one transaction.  Which versions are
old enough, and which documents the caller protects, is any choice.

The docstring of `delete_expired_versions` speaks of "preserving referenced
documents"; what the code preserves are the documents whose identifiers the
caller passes.  A document that only a protected one links to is deleted, and
the link with it.  The model does the same.

### ProjectReset

`ForeignKeys` lists, for every table of a project, what its NOT NULL columns
refer to and what its nullable ones may, one function for each group of models.
`AnalysisPurge` and `DemoPurge` are
the statements in the order of the code.  A state has rows in one table, any
choice of its nullable references, and what these need: a delete is refused
because of a single reference, so one table at a time shows every refusal.
References within a table, and to project, organization and users, are left out.

### ClaimSemantics, Canonicalization

`Canonicalize` is one run of `assign_and_canonicalize_clusters`, which reads and
writes in one transaction.  It prepares each listed cluster (`Prepared`: label,
family, role), ranks the clusters of an action domain, leaves one primary each
(`PrimaryChoices`), takes back that an earlier run attached it (`Unattached`: it
is attached to nothing, but keeps the kind of the attachment it had), attaches
the others by the order of the code's tests (`Attachment`), folds outdated
claims into the primary, and adds a conflict row for each pair of opposed
claims.  `notes` are the columns this writes, `result` is what the run returned,
kept until the clusters change.  The order of the claims of a cluster and of
clusters with equal keys is any order, as the queries leave it. `ClusterStep` is
every step of `ClaimClusters`; a new cluster starts with an empty note, which
merges and splits do not copy.  A text is the set of marker words the code looks
for; a number has a value and a unit.

### AnalysisGraph, GraphSearch, SourceClaims, BddFeatures, Extraction

A session reads (`BeginUpsert`, `BeginClaims`) and later commits or is refused by
a unique key (`CommitUpsert`, `RefuseUpsert`, `CommitClaims`, `RefuseClaims`).
Rows are identified by their canonical keys; a node or an edge remembers the run
that inserted it.  A result is stored at most once per hash unless two sessions
overlap, for nothing is unique about runs.  A batch of claims is a sequence of
drafts; the first draft of a key wins.

A search is one step per level: `GraphSearch` keeps what the code keeps between
two queries (`visited`, `frontier`, the edges found), and the rows of a query
under a limit are any of those that match (`EdgeBatches`).  Two fields are
history for the properties: what was within reach at the start, and whether a
cap was met.

`IngestFeature` is `ingest_feature_file`: unchanged, parse error, replacement, or
a refusal.  A text without a feature is refused when the file has one already.  A
changed feature is refused when it has steps: `_clear_feature_children` deletes
scenarios and steps in one flush, no relationship orders the two mappers, the
scenarios go first, and the foreign key of the steps refuses that
(`cluster_service.py:289-293` has the same problem with memberships and flushes
between the two).  So a feature with steps keeps its scenarios, links and claims
however its file changes, and once it has failed to parse not even its own text
brings it back.  No doc, comment or test says otherwise of a database that
enforces foreign keys, so this is in the model and no finding.  `LinkSteps`
deletes and remakes the links.  What the Gherkin parser makes of a text is the
constant `Document`.

`Extraction` puts them under one worker, two sessions and a reader.  The loop
around the repository's batch query is the caller's; it asks for the batch after
the last path until a batch is empty, and then links the steps once.  A batch is
a set of files, done in the order of their paths.  `Override` changes a
classification or a text while it runs, `Restart` begins the next extraction of
the version. Searches and the worker share no table, so, as a bound, a search is
asked before the worker starts and ends before it fetches.

### RuleScoring, RuleSuggestions, Rules

Scores are fixed-point (`One = 10000`); a product loses less than one part in
ten thousand, where the code has floating point.  `Rules` has rules with status,
parent and fingerprint, the owner of each row of evidence, lineage, audited
lineage, category, suggestions. The three merging operations read (`BeginMerge`,
`BeginIdentityMerge`, `BeginSupersede`) and later `Commit` or `Abort`; nothing
forbids merging a rule into itself or into a deprecated one, and the model does
not either.  `Attach`, `Rescan` and `Review` are callers of the repositories: a
scan attaches evidence, the next version brings a rule under its identity with a
review if `should_carry_forward_review` says so, a reviewer approves, rejects,
deprecates or asks for a follow-up (`ReviewOutcomes`).  `found`, `basis`,
`approvals` and `dropped` are history: the rule a row was found for, the
fingerprint an approval was given on, and the rules a human approved and
deprecated.

### AstReads, AstProposals, AgentModels, AgentContracts, Investigation

Each read decodes one payload and answers from it, so it is one step; a
traversal of pages is several, with `CreateDocument`, `StoreDocument` and
`DropDocument` (what `AstStore` models in full) in between.  A search over a
version that has a document without a packed payload is an error, as in the code
(`Searchable`); every other read takes such a document for none.  `Codes` are
the issues that `validate_ast_rule_proposal` reports, `ClaimsOf` is
normalization and merging.  A read gives the investigation two nodes to cite, so
proposals that are merged may cite different ones.  A merged claim has the
fields, coverage and roles of its first draft and the citations of all: what the
property requires it to cover is what the first draft was accepted for. The
investigation loop is not in the packages; `Investigation` takes it to use the
records for what they are: no call on an exhausted budget, the next page by
`next_cursor`, no record that does not construct.  The model is not trusted: any
read, decision and proposal of the instance may come.  `AgentContracts` has the
validators of steps, outcomes and limits, each a conjunction of what its record
refuses.

### LineMetrics, FileTypes, Inventory, SandboxScan

Operators only: the line counters as a fold over the lines (a line is the
sequence of comment marks in it), the resolver of file types with custom
mappings and overlays, classification and production buckets, totals, groups and
the directory tree, the display path of a file and the way back, the walk over a
workspace with its limits.  Which paths a pattern matches and what the built-in
tables contain is data.  `Inventory` has a recursive operator and is therefore
only checked.

## 3. Runs

| Run | Instance | Result |
| --- | --- | --- |
| `clusters` | 3 claims, 5 cluster identifiers, 3 edits, 1 session | pass |
| `clusters_sessions` | 2 claims, 5 cluster identifiers, 3 edits, 2 sessions | pass |
| `clusters_overlap` | 2 claims, 2 sessions | `LockedClustersPreserved` violated |
| `clusters_reform` | 1 session | `ReformSeesDependentsGone` violated |
| `lifecycle` | 2 versions, 2 files, 1 content, 2 trees, 1 link, 1 session | pass |
| `lifecycle_overlap` | 2 versions, 1 file, 2 sessions | `RetentionSparesLiveVersions` violated |
| `reset` | both purges, every table and its references | pass |
| `reset_demo` | demo purge | `OrderIsSafe` violated |
| `canonicalize` | 3 claims, 4 cluster identifiers, 2 edits, 3 runs, 6 sets of texts, 1 session | pass |
| `extraction` | 2 files (1 feature, 4 texts), 4 results, 5 searches, 2 sessions, 2 operations, 2 overrides | pass |
| `rules` | 6 rules in 3 versions and 2 projects, 10 rows of evidence, 2 sessions, 3 steps | pass |
| `investigation` | 2 documents, 4 trees, 3 tool calls, 11 proposals | pass |

**clusters.** A claim is in at most one cluster; a locked cluster keeps its
members; a re-form covers every claim; flag and status of a lock agree; and
every step is a step of `ClaimAssignment` or a stutter.  The bound `MaxEdits`
counts locks, unlocks, merges, splits and traces together; re-forms are not
bounded.  Interesting sequences are short - split, lock the child, re-form;
merge, lock the merged one, re-form - and fit in three.  Two re-forms of three
claims with a split between them need five identifiers; an identifier that
nothing mentions any more is used again, as a new one would be.

**clusters_sessions.** What holds although operations overlap: no reference
dangles, and a cluster that a trace cites is never deleted.  Three edits are
enough for a trace, a lock and a merge or split between another session's read
and its commit; refused merges and splits happen only here.

**clusters_overlap, clusters_reform.** With two sessions a lock that is
committed between the read and the commit of a re-form is lost.  With one, a
split whose child is then locked leaves a parent reference that makes every
re-form of the version fail until the child is unlocked: the removals are
ordered for memberships, not for child clusters.

**lifecycle.** Links resolve and packed documents decode although payloads are
shared and packed through any of their documents; the trees of blobs never
change, which is what the per-session cache of decoded trees relies on;
retention takes nothing from a building or ready version; the active version is
never a superseded one; after an activation no other version is ready.  Two
versions that share the payloads of two files are the least with a document
that survives its payload's creator, and with a link between documents.  Trees
of one and of two nodes tell a stale count from a right one.

**lifecycle_overlap.** Retention reads that a version failed or was superseded,
another session makes it ready and stores documents, retention deletes them.

**reset, reset_demo.** The analysis purge is in the right order among the
tables it touches.  When tables that it leaves alone (source claims, the graph,
the AST tables, manifests, ...) have rows that refer to what it deletes, it is
refused: callers have to empty those first.  The demo purge deletes
`graph_nodes` before `semantic_observations` and `coverage_lines`, which refer
to them, and so is refused by its own order; `reset` shows that this is the only
place where it is (`DemoOrderSafeButForNodes`): the rest of its order, and the
two references it clears instead of ordering them, are right.

**canonicalize.** Two edits and three runs give every order of merge, split and
lock before, between and after two runs, so a cluster can be primary, then
attached, then primary again, or be merged away while others are attached to it.
The texts are chosen so that each kind of attachment, each role and a conflict
occur; two claims of one text make ties.  Each domain with a primary emits it
unless it is locked; the others lead to it; outdated claims are kept as
evidence; a run on its own output changes nothing, provided that ties fall as
before.  Every run stores its conflicts again (`conflicts` counts the rows): the
code does so, and nothing in it says otherwise.  Identifiers of clusters are
interchangeable (symmetry).

**extraction.** Two operations are the least that overlap; four results repeat
an object, share nodes, lack an end of an edge or carry no hash; a chain of
three edges and a shortcut, with one edge per query and caps of two nodes, meets
every cap, and paths of one to three edges; batches repeat a key within and
between them.  One override is enough to move a file in front of or behind the
cursor or to change a text while its steps are linked; two, with a restart, let
a file fail to parse and be set back, or lose its feature and get it again.  The
texts are a feature with steps, one without, one that does not parse and one
with no feature; a file starts with either feature.  As a bound, overrides come
in behaviours without a search, with which they share no table.
`EveryFileAttempted` is the liveness property: from the start of an extraction,
each file is attempted or stops being eligible.  It needs the fairness of the
worker and nothing else.  The run also evaluates, before its first state, what
the discovery operators promise (`LinesAreCounted`, `TypesAreResolved`,
`InventoriesAgree`, `PathsLeadBack`, `WorkspacesAreLimited`): all sequences of
up to three lines, mappings or rows, and of up to two directories of up to two
files.  Three lines are enough to open, continue and close a block; three rows
to have a folder, a file beside it and one below it. Two of these promises
describe limits: a Python docstring that begins with a lone quote is counted as
code, and a file without a count is all code in the totals and none in the tree.

**rules.** Two sessions suffice for each overlap of a read and a commit; three
steps (a merge, another merge or a scan or a review, and one more) for chains of
lineage, for evidence attached while a merge runs and for a review carried over
two versions.  The similarity of three rules is not transitive, so the groups
depend on the order.  Merges are allowed to leave newly attached evidence on a
deprecated rule - they do - but lineage then still leads from where it was found
to where it is, and a merge that no attachment overlaps opens no gap.

**investigation.** Three calls are three pages, or a page, a rewrite and another.
The first tree has two levels and a node in front of, inside and behind each
offset; the others move nodes, contain a cycle, or have two nodes in one place (and
are refused by the codec).  The proposals have every defect the validation
knows, and pairs that merge.  Before its first state the run evaluates the
validators on all records over small fields: better models pass where worse do
(`BetterModelsPassToo`), a budget is exhausted exactly when nothing of some
dimension is left (`BudgetIsCoherent`), outcomes, errors and tool results fit
each other (`OutcomesAreCoherent`), and what was cut can be told from what is
complete (`StepsAreCoherent`).

Deadlock is not checked where all edits, operations or calls may be used up.
Runs with a violation end in a documented promise that the code does not keep;
`PROJECT.json` quotes it under "findings".

## 4. Proofs

The modules `*_proofs` prove, for every value of the constants, the theorems
below.  They assume of the constants what the modules name, and TLC evaluates
each of these assumptions on the instance of a run:

| Assumption | Says |
| --- | --- |
| `ChunkingAssumption` | grouping partitions the active claims, whatever the scores are |
| `NoneAssumption`, `NoVersionAssumption`, `MaxEditsAssumption`, `RunsAssumption`, `RulesAssumption`, `FeaturesAssumption` | "nothing" is not an identifier or a row, the bounds are numbers, the first evidence belongs to rules of the first version |
| `TreesAssumption`, `TablesAreFinite`, `FilesAssumption` | tables and trees are finite, files are ordered by path |
| `TextsAssumption`, `RowsAssumption` | scores are integers, those of AST evidence between zero and one |
| `PayloadsAssumption` | a result has sequences of nodes and of edges, and two results of a provider with one hash are one |
| `SearchesAssumption` | the caps of the service are positive |
| `BatchesAssumption`, `InitialTextsAssumption` | batches are sequences, texts are texts |
| `AstReads!PayloadsAssumption`, `LimitsAssumption` | trees are finite and their nodes have numbers for keys, ordinals and offsets; page sizes and limits are positive, as `_bounded_limit` makes them |
| `ProposalsAssumption` | a proposal has its fields, a list of evidence, and a confidence from zero to one (`ge=0, le=1` in `ast_proposal.py`) |

| Theorem | States | Sessions |
| --- | --- | --- |
| `TypeCorrect`, `CitedSurvive` | `ClaimClusters!TypeOK`, `CitedClustersSurvive` | any |
| `ClaimsInOneCluster`, `LockedStatusHolds`, `LockedPreserved`, `FormCoversAll` | `OneClusterPerClaim`, `LockedStatusAgrees`, `LockedClustersPreserved`, `FormCoversEveryClaim` | serial |
| `TablesImplementAssignment` | `ImplementsAssignment`: the refinement of `ClaimAssignment` | serial |
| `LifecycleTypeCorrect`, `LinksAlwaysResolve`, `DocumentsAlwaysDecode`, `BlobsWrittenOnce` | `AstLifecycle!TypeOK`, `LinksResolve`, `PersistedDocumentsDecode`, `DecodedTreesNeverChange` | any |
| `ActiveStaysCurrent`, `LiveVersionsSpared`, `AloneWhenActivated` | `ActiveNeverSuperseded`, `RetentionSparesLiveVersions`, `ActivatedAlone` | serial |
| `CanonTypeCorrect`, `OutdatedIsKept`, `RerunIsStable` | `CanonTypeOK`, `OutdatedStaysEvidence`, `RerunStable` | serial |
| `EmissionsAreUnique`, `AttachmentsAreDirect` | `OneEmissionPerDomain`, `AttachmentsReachPrimary` | serial, `NoUnknownAction` |
| `RulesAreTyped`, `LineageExplains`, `DecisionsAlwaysStand`, `MergesAddNoGap`, `NoDuplicateIsMissed` | `RulesTypeOK`, `LineageIsSound`, `DecisionsStand`, `MergingAddsNoGap`, `GroupsMissNothing` | any |
| `ObservationsCorroborate` | `ObservationsOnlyCorroborate` | any, bounded weights |
| `ExtractionTypeCorrect`, `RunsComplete`, `OverlapsAddNothing`, `ClaimsHaveOwnEvidence`, `BatchesAreSingles`, `FeaturesFollow`, `NeighborhoodsAreWhole`, `PathsAreHonest` | `ExtractionTypeOK`, `RunsAreComplete`, `OverlapAddsNothing`, `EvidenceOnce`, `BatchLikeSingles`, `FeaturesFollowFiles`, `NeighborhoodIsWhole`, `PathAnswersAreHonest` | any |
| `PagesFitTogether`, `AnswersAreHonest`, `ClaimsStayGrounded` | `PagesAreWhole`, `AnswersAreWhole`, `ClaimsAreGrounded` | one investigation, any rewrites |
| `AnalysisOrderFits`, `DemoOrderFits` | `AnalysisOrderIsSafe`, `DemoOrderSafeButForNodes` | one purge |
| `OrderFitsAnyContent`, `DemoOrderFitsAnyContent` | the same two, from any content of a project | one purge |

The last column holds hypotheses of the theorems, not axioms.  *Serial*: all
sessions are the same one, so that an operation's read and commit are not
interleaved with another's; the overlap runs show that it is needed.
*NoUnknownAction*: no claim has the word "unknown" for its action.  The code
uses this word as the domain of the clusters without a family and does not keep
claims from having it; a cluster with such an action would share a domain with
clusters that have none, and be emitted beside or attached to them.  *Bounded
weights*: no project weighs static analysis above 0.875 or code comments above
0.58.  By default they have 0.6 and 0.35; the weights are configurable up to
one, and with higher ones an observation alone reaches the score of a
confirmation.

**Clusters.** None of the safety properties is inductive: a commit writes what
an earlier step read.  The inductive invariant `IInv` joins `TypeOK`,
`OneClusterPerClaim`, `LockedStatusAgrees` and `PlanStillTrue`, which says that
the plan of each session still describes the tables.  With serial sessions this
last part says no more than that nothing happens in between; it is defined beside
the proofs, which need it, and is no property of a run.  A re-form keeps
`OneClusterPerClaim` because the active claims of its plan are exactly those
that no kept cluster has; merge and split keep it because rows move.
`LockedClustersPreserved` follows step by step: the clusters a plan touches are
unlocked by `PlanStillTrue`.

The refinement maps the tables to the function `assign` and the set `pinned`.
`Tells` turns the CHOOSE in `assign` into what `OneClusterPerClaim` makes of it:
the cluster of a claim is that of its only row.  Then a committed re-form is
`Regroup` (its claims all have rows by `FormCovers`, and locked clusters keep
theirs), a merge of two clusters is `Merge` because no claim of the source is in
the target, a merge of a cluster into itself is `Dissolve` because all are, a
split is `Split` (or a stutter), locks are `Pin` and `Unpin`, and everything else
stutters.

**AST store.** `LinksResolve` needs that the target of a link is not deleted
(the foreign key), that a tree is written once, and that expiry removes the
links of what it removes and no payload that a remaining document uses.  The
store's invariant is inductive without any assumption on sessions, because each
operation of the store is protected by constraints rather than by what it read.
The properties about status need `VersionsReadStillTrue`: what retention or an
activation read of versions is still so.

**Canonicalization.** A run is one large step, so the work is in what it
computes, by the passes of the code: pass 1 writes role and semantics of the
listed clusters only (`AssignmentFacts`); a primary is the first of its domain in
the ranking; pass 2 attaches the others, and folds outdated claims.  `LastRun`
says that the notes are what the last run made of some assignment and some
choice of primaries; what the properties state then holds of `AttachAll` for
any assignment, and a run that makes the same choices gets the same, because
what pass 2 writes is not read by pass 1.  `CanonInv` joins these to the
invariant of clustering, which the rows of a claim need.

**Rules.** `LineageIsSound` speaks of paths in the lineage: evidence is led from
the rule it was found for to the one that has it.  A commit moves the rows its
session read, wherever another merge has taken them since, and an attachment
may come in between; so the invariant must know of a session at work that each
row it will move was found for a rule from which lineage leads to one that it
merges (`WorkIsSound`).  `AttachedSound`, `DeprecatedSound` and `ParentSound` are
the conjuncts of the property; lineage only grows, so that what led somewhere
still does (reachability is stated by closed sets, which needs no induction over
paths).  No assumption on sessions is needed.  `DecisionsStand` needs
`BasisIsCurrent`: the review of a rule was about the fingerprint it has, or about
none; a carried review keeps this since a fingerprint that changed is not carried.

`GroupsMissNothing` is proved along the loop: `GroupsAre` says, of the groups
after `i` candidates, that they are disjoint and that each candidate before `i`
that is similar to another is in a group or the other is, and `GroupedStep` that
one more candidate keeps this.  `ObservationsOnlyCorroborate` is arithmetic over
the weighted means and caps of the scores; the sums over rows of evidence, in
whatever order they are added, are bounded by `SumsBounded`.

**Graph and claims.** `OverlapAddsNothing` needs that a committed run's rows all
exist (`RunsHaveRows`), that a session at work inserts whatever rows of its
result it did not find (`WorkIsWhole`), and that every row belongs to a committed
run (`RowsHaveRuns`).  When a second session commits a result that has a run,
all rows of the result exist; what it inserts must not exist, so it inserts
nothing, or is refused.  `RunsAreComplete` follows from the same `GraphInv`.
`EvidenceOnce` holds because a batch inserts a key once (`FreshRows`) and only
when the key is free at the commit; the part of `ClaimsInv` about sessions says
that a batch at work is indexed by positions.  `BatchLikeSingles` compares this
with a fold: after the first drafts the table has the rows of `Filled`, the
earliest draft of each key, and one more draft keeps it so (`FilledNext`).

**Searches.** Other sessions insert edges between two levels, so a search is
compared with two graphs: the edges `es` that were there when it was asked, for
what it must find, and those that are there now, for what it may find.  The
invariant `SearchInv` has the parts `Typed`; `Complete` (without a cap, all
within the levels done is visited, and only the frontier has edges that lead
on); `Gathered` (the answer of neighbors is connected and within its limits);
`Ranked` and `Traced` (every visited node has an edge to a node one level
nearer, so a path can be traced back, and it is a shortest one).  Each step is a
level; `SearchInvGrows` says that inserts keep the invariant.

**Features.** `BddInv` is the property with its types: the rows of a feature are
those of its text, an error leaves them, and a refused ingestion leaves
everything, because the feature has steps or the text no feature.  `WorkerInv`
says that the batch and the files attempted are files of the version, and
eligible when fetched.

`FiniteInduction` has what these proofs need of induction.  The induction
theorems of the library take an operator, which the provers cannot instantiate;
these take a set (`NatSetInduction`, `RankInduction`, `FiniteInduction`), and give
the existence of a recursively defined function on an interval
(`BoundedRecursion`) and of sums over a finite set (`SumsExist`, `SumsAreNumbers`,
`SumsBounded`, `Distributes`).

**Pages.** `PagesInv` says that what a traversal has collected is the first part
of the sorted children of the tree it reads, and `PageContinues` that the rows a
page takes behind a cursor extend that part.  Both rest on what a sorted list
is: `SortedLists` (the number of elements before an element is its position) and
`ListIsSorted` (there is no other list).  That the order of siblings is total is
what the codec refuses duplicate places for.  A tree rewritten between two pages
ends the promise of completeness and not that of order, so no position comes
twice.

**Answers.** A subtree is walked level by level and cut at two limits; the
property speaks of what is below the root at all.  The codec gives the nodes of
a tree heights, each one more than its parent's (`TreesAre`), so no node comes
twice; `ReachIs` shows that as many levels as there are nodes reach everything
that can be reached.  `WalkStep` is one level of the walk, whose next nodes are
the lists of children one behind another (`FlattenIs`, proved along the prefixes
of the list), and `WalkIs` says of the whole walk that it has parents first, and
misses no child unless it says that it was cut.  `ContainingAnswers` and
`SearchAnswers` say what the node at an offset and a search are.

**Claims.** `AcceptedIs` reads the issue codes backwards: what a proposal has
when none of them applies.  From it follows that the drafts made of it are
supported by their citations (`BehaviorIsSupported`, `IntentIsSupported`).
`MergedIs` shows that a merged claim still rests on what it cites, and has all
citations (each once, `FirstEntries`), keys and origins of its group and at
least its greatest confidence; `DeduplicatedIs`, that a draft is in exactly one
claim.  The invariant `ProposalsInv` is small: a batch has accepted proposals
only, and claims are made at the end.

**Purges.** A run starts from one table and what it needs.  The proofs start
from any content the foreign keys allow (`Content`), and `InitIsContent` shows
that every start of `Spec` is one, `WithParents` being closed because no table
stands more than four tables high (`Height`).  That nothing dangles
(`NothingDangles`) is the database's doing, whatever a purge does, and only a lemma
here.  `Place` is the position at which the analysis purge deletes a table; a
table is deleted before those it refers to (`ParentsLater`), and at each statement
the tables with an earlier place are empty (`Progress`), so whoever refers to the
table the purge stops at has no place.  The demo purge is proved in the same way,
by `DemoPlace`, with two differences: the references that it clears first
(`ClearedReferences`), and those of `semantic_observations` and `coverage_lines` on
`graph_nodes`, the only ones that go backwards (`Backwards`).  That `OrderIsSafe`
fails for it is shown by the run `reset_demo`; the theorem says that repairing
these two is enough.

Checked by TLC only: that the union-find of `ClaimGrouping` gives connected
components; the promises of the discovery operators and of the validators, which
are assumptions evaluated on small data; the runs that end in a violation.
Liveness under fairness (`EveryFileAttempted`) is outside what the prover can do.

## 5. Not modelled

* the loop that drives an investigation, the commits, workers and HTTP of the
  application: outside the packages, present only as actions that call into them
  (`StoreStep`, `RecordTrace`, `FetchBatch`, `Attach`, `Rescan`, `Review`,
  `Choose`, `Decide`);
* generators of gaps and conflicts for a whole version: what they say of one rule
  or one pair is modelled, the loops that store it are not;
* embeddings and the swallowed error of their flush; hyperedges; counters and
  outcomes of parse runs; version numbers; find-reusable-document;
* the byte layout and compression of AST payloads; symbol and link queries;
* term comparison in `proposal_validation.py`, probing of provider credentials
  (I/O), the monthly spend, JSON envelopes of tools;
* glob matching, the built-in mapping tables, scaffold classification, rule
  categories (text tables); redaction of secrets and serialization; marks that
  overlap in one line (`/*/`);
* the audit log, but for the events that record lineage; accounts, tokens,
  organizations, tickets; scan-run states, which only the application writes;
* exports, the demo package, the repository factory, pagination and query
  builders: no state or behaviour of their own.

Hazards that no property covers are listed with their reason in `PROJECT.json`:
among them the lost audit event when a process dies between a commit and
`record_audit_event`, results without a hash that share one digest, the
candidates query that looks at the lock only, the pointer that overlapping
activations may leave on a superseded version, the documents that reuse a payload
with a node count of zero, the race on
`next_version_number`, the monthly spend that calls under way do not see, and
payloads that a replaced document leaves behind.

## 6. What could follow

Every invariant and action property of the passing runs has its theorem.  Still
to be proved are results about operators that are only evaluated: that
union-find and chunking satisfy `ChunkingAssumption`, that the totals of an
inventory are those of its tree, that better models pass where worse ones do.

Of the components left out, the audit log and the generators of gaps and
conflicts keep state that would be worth modelling once the application's
transactions around them are part of this repository.
