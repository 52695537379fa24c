---------------------------- MODULE BddFeatures ----------------------------
(***************************************************************************)
(* BDD features (extraction/bdd/gherkin_ingestion.py, step_linking.py and  *)
(* bdd_claims.py): feature files become features, scenarios and steps, the  *)
(* steps are linked to step definitions and by their names to graph nodes,  *)
(* and scenarios become claims.                                            *)
(*                                                                         *)
(* Every operation is one transaction of the worker, the only writer of     *)
(* these tables.  The database refuses to delete a scenario that has steps, *)
(* and a second feature with one key.                                      *)
(***************************************************************************)
EXTENDS SourceClaims

CONSTANTS
    FeatureFiles,
    Texts,          \* the texts the files may have
    Document,       \* text -> what the Gherkin parser makes of it (external):
                    \*   [kind : {"error", "empty", "feature"}, scenarios : Seq]
    Definitions,    \* step definitions, in the order they are found: [name, matches]
    NodeNamed       \* definition name -> the graph node of that name, or None

VARIABLES
    features,   \* file -> [text, error, scenarios, generation], or None
    links,      \* step -> sequence of its link rows
    ingested    \* file -> the last ingestion: [text, refused], or None

\* None stands for a row that does not exist.
FeatureRecords ==
    [text : Texts, error : BOOLEAN, generation : Nat \ {0},
     scenarios : {<<>>} \cup {Document[t].scenarios : t \in {x \in Texts : Document[x].kind = "feature"}}]

ASSUME FeaturesAssumption == None \notin FeatureRecords

bddVars == <<features, links, ingested>>

BddInit ==
    /\ features = [f \in FeatureFiles |-> None]
    /\ links = <<>>
    /\ ingested = [f \in FeatureFiles |-> None]

\* The step rows of a feature; generation tells apart the rows of two
\* ingestions of one file.
StepRows(f) ==
    IF features[f] = None THEN {}
    ELSE UNION {{<<f, features[f].generation, i, j>> :
                    j \in DOMAIN features[f].scenarios[i].steps} :
                i \in DOMAIN features[f].scenarios}

AllSteps == UNION {StepRows(f) : f \in FeatureFiles}

StepAt(row) == features[row[1]].scenarios[row[3]].steps[row[4]]

-----------------------------------------------------------------------------
(***************************************************************************)
(* ingest_feature_file                                                     *)
(***************************************************************************)

\* The file's content is the one the feature was last made of -- even if that
\* ended in a parse error.
CachedOnce(f, text) == features[f] # None
Cached(f, text) == features[f] # None /\ features[f].text = text

\* A document that does not parse replaces the error and the content hash, and
\* keeps the scenarios of the content before.
ParseError(f, text) ==
    features' = [features EXCEPT ![f] =
        IF @ = None THEN [text |-> text, error |-> TRUE, scenarios |-> <<>>, generation |-> 1]
        ELSE [@ EXCEPT !.text = text, !.error = TRUE]]

\* A document without a feature is stored as a new feature, whose key is taken
\* if the file has one.  The scenarios and steps of a changed feature are deleted
\* in one flush; without a relationship between the mappers the scenarios go
\* first, and the database refuses to delete one that has steps.
Refused(f, text) ==
    \/ Document[text].kind = "empty" /\ features[f] # None
    \/ Document[text].kind = "feature" /\ StepRows(f) # {}

\* _upsert_feature_from_node, _clear_feature_children, _walk_feature_children
Stored(f, text) ==
    [text |-> text, error |-> FALSE, scenarios |-> Document[text].scenarios,
     generation |-> IF features[f] = None THEN 1 ELSE features[f].generation + 1]

IngestFeature(f, text) ==
    /\ ingested' = [ingested EXCEPT ![f] =
                       [text |-> text, refused |-> ~Cached(f, text) /\ Refused(f, text)]]
    /\ IF Cached(f, text) \/ Refused(f, text) THEN UNCHANGED features
       ELSE IF Document[text].kind # "feature" THEN ParseError(f, text)
       ELSE features' = [features EXCEPT ![f] = Stored(f, text)]
    /\ UNCHANGED links

-----------------------------------------------------------------------------
(***************************************************************************)
(* link_steps                                                              *)
(***************************************************************************)

\* _candidates_for_step: the definitions whose pattern the step's text matches.
Candidates(step) == {i \in DOMAIN Definitions : step.text \in Definitions[i].matches}

\* One definition links a step, several leave it ambiguous, none undefined; the
\* first one is the one whose node is linked.
LinkOf(step) ==
    LET found == Candidates(step)
        name  == IF found = {} THEN None ELSE Definitions[Min(found)].name
    IN  [status |-> IF found = {} THEN "undefined"
                    ELSE IF Cardinality(found) = 1 THEN "linked" ELSE "ambiguous",
         name |-> name,
         node |-> IF found # {} /\ NodeNamed[name] \in DOMAIN nodes THEN NodeNamed[name] ELSE None]

\* The old links of a step are deleted and one is inserted.
Relinked(row) == <<LinkOf(StepAt(row))>>

LinkSteps ==
    /\ links' = [row \in AllSteps |-> Relinked(row)]
    /\ UNCHANGED <<features, ingested>>

-----------------------------------------------------------------------------
(***************************************************************************)
(* claims_from_scenario                                                    *)
(***************************************************************************)

\* The step's bucket by its keyword type or keyword; And and But have none.
Bucket(step) ==
    CASE step.type = "context" \/ step.keyword = "given" -> "given"
      [] step.type = "action"  \/ step.keyword = "when"  -> "when"
      [] step.type = "outcome" \/ step.keyword = "then"  -> "then"
      [] OTHER -> None

\* _partition_step_texts: without any step of a bucket, And and But steps all
\* are givens (_inherit_and_but finds the other buckets empty).
Partition(steps) ==
    LET of(b) == SelectSeq(steps, LAMBDA st : Bucket(st) = b)
        none  == \A i \in DOMAIN steps : Bucket(steps[i]) = None
    IN  [given |-> IF none THEN SelectSeq(steps, LAMBDA st : st.keyword \in {"and", "but"})
                   ELSE of("given"),
         when |-> of("when"), then |-> of("then")]

\* The claim is named by scenario and first outcome; its confidence depends on
\* whether a step is linked to exactly one definition.
ScenarioDraft(f, i) ==
    LET scenario == features[f].scenarios[i]
        parts    == Partition(scenario.steps)
        linked   == {j \in DOMAIN scenario.steps :
                        LET row == <<f, features[f].generation, i, j>>
                        IN  row \in DOMAIN links /\ links[row][1].status = "linked"}
    IN  [key |-> <<"bdd_gherkin", f, scenario.name, scenario.line,
                   IF parts.then = <<>> THEN None ELSE parts.then[1].text>>,
         from |-> <<f, features[f].generation, i>>, node |-> None, edges |-> {},
         confidence |-> IF linked # {} THEN 60 ELSE 45]

\* The drafts of the scenarios of every feature that parsed
\* (list_parseable_for_analysis).
ScenarioDrafts ==
    UNION {{ScenarioDraft(f, i) : i \in DOMAIN features[f].scenarios} :
              f \in {x \in FeatureFiles : features[x] # None /\ ~features[x].error}}

-----------------------------------------------------------------------------
(***************************************************************************)
(* Properties                                                              *)
(***************************************************************************)

\* One link, with the status and the definition that the step's text demands.
SaysOfStep(rows, step) ==
    /\ Len(rows) = 1
    /\ rows[1].status = LinkOf(step).status /\ rows[1].name = LinkOf(step).name

\* The tables follow the files, through changes, errors, repairs and refusals.  A
\* feature has the text last ingested; where that was refused, it is whole and has
\* an older text, because it has steps or the file has no feature left.  Without a
\* parse error it has exactly the scenarios of its text.  Each link is that of a
\* step that exists, and says what the step's text says.  (A feature with steps
\* never gets other scenarios: after a parse error not even its own again.)
FeaturesFollowFiles ==
    /\ \A f \in FeatureFiles :
          /\ ingested[f] # None /\ ~ingested[f].refused => features[f].text = ingested[f].text
          /\ ingested[f] # None /\ ingested[f].refused =>
                /\ features[f] # None /\ features[f].text # ingested[f].text
                /\ Document[ingested[f].text].kind = "empty" \/ StepRows(f) # {}
          /\ features[f] # None /\ ~features[f].error =>
                features[f].scenarios = Document[features[f].text].scenarios
    /\ DOMAIN links \subseteq AllSteps
    /\ \A row \in DOMAIN links : SaysOfStep(links[row], StepAt(row))
=============================================================================
