---------------------------- MODULE RuleScoring ----------------------------
(***************************************************************************)
(* What the evidence of a rule says about it: the confidence scorer         *)
(* (claims/confidence_scorer.py, ast_evidence.py) and the gap analysis      *)
(* (gaps/gap_analysis_v2.py), as functions of a set of rows.                *)
(*                                                                         *)
(* A row is evidence, an AST observation, a coverage report or a runtime    *)
(* log.  Scores are fixed-point numbers, One being 1.0; a product loses less *)
(* than one ten-thousandth.  Explanations are left out.                    *)
(***************************************************************************)
EXTENDS Integers, FiniteSets, FiniteSetsExt

CONSTANTS
    RowOf,      \* row id -> [type, score, scaffold, resolution, quality, parserError]
    Overrides   \* source type -> weight, for the types whose weight is configured

One == 10000

\* AstEvidenceView accepts shares only; any other score is clamped.
ASSUME RowsAssumption ==
    /\ IsFiniteSet(DOMAIN RowOf)
    /\ \A e \in DOMAIN RowOf :
          /\ RowOf[e].score \in Int
          /\ RowOf[e].type = "ast" => RowOf[e].score \in 0..One /\ RowOf[e].quality \in 0..One
    /\ \A t \in DOMAIN Overrides : Overrides[t] \in Int

Implementation == {"backend_code", "frontend_code", "api_contract"}
Tests          == {"unit_test", "integration_test", "bdd_spec", "api_test"}
Docs           == {"readme_doc", "design_doc", "ticket"}

\* What machines observe about a rule, and nobody wrote down for it.
Observations == {"static_analysis", "ast", "coverage", "runtime", "ai_extraction", "code_comment"}

DefaultSourceWeights ==
    [t \in {"backend_code", "frontend_code", "bdd_spec", "unit_test", "integration_test", "api_test",
            "api_contract", "readme_doc", "design_doc", "static_analysis", "coverage_report",
            "runtime_log", "code_comment", "ai_extraction"} |->
        CASE t = "backend_code" -> 10000  [] t = "frontend_code" -> 9500
          [] t = "bdd_spec" -> 9000       [] t \in {"unit_test", "integration_test"} -> 8500
          [] t = "api_test" -> 8000       [] t = "api_contract" -> 7500
          [] t \in {"readme_doc", "design_doc"} -> 7000
          [] t = "static_analysis" -> 6000 [] t = "coverage_report" -> 5000
          [] t = "runtime_log" -> 4500    [] OTHER -> 3500]

-----------------------------------------------------------------------------
Times(a, b) == (a * b) \div One

Least(a, b) == IF a < b THEN a ELSE b
Greatest(a, b) == IF a > b THEN a ELSE b

ToUnit(x) == Greatest(0, Least(One, x))

\* A number above 1 is taken for a percentage.
AsShare(x) == IF x <= One THEN x ELSE x \div 100

\* _avg; scores gives each row its score.
Mean(rows, scores) ==
    IF rows = {} THEN 0 ELSE SumFunctionOnSet(scores, rows) \div Cardinality(rows)

WeightFor(type) ==
    IF type \in DOMAIN Overrides THEN Overrides[type]
    ELSE IF type \in DOMAIN DefaultSourceWeights THEN DefaultSourceWeights[type] ELSE One

OfType(rows, types) == {e \in rows : RowOf[e].type \in types}

-----------------------------------------------------------------------------
(***************************************************************************)
(* Confidence                                                              *)
(***************************************************************************)

\* _score_evidence_row: the row's score, before and after what its group makes
\* of it.  Test rows that are scaffolding do not count.
Weighted ==
    [e \in DOMAIN RowOf |-> ToUnit(Times(ToUnit(AsShare(RowOf[e].score)), WeightFor(RowOf[e].type)))]

TestScore ==
    [e \in DOMAIN RowOf |->
        IF RowOf[e].type = "bdd_spec" THEN Weighted[e] ELSE Times(Weighted[e], 7500)]
DocScore ==
    [e \in DOMAIN RowOf |-> Times(Weighted[e], IF RowOf[e].type = "code_comment" THEN 4000 ELSE 8500)]

CountedTests(rows) == {e \in OfType(rows, Tests) : ~RowOf[e].scaffold}

\* score_ast_evidence
ResolutionFactor(resolution) ==
    CASE resolution = "extracted" -> 10000 [] resolution = "resolved" -> 9000
      [] resolution = "inferred" -> 6500   [] OTHER -> 4000

AstScore ==
    [e \in DOMAIN RowOf |->
        LET row   == RowOf[e]
            score == Times(Times(row.score, row.quality), ResolutionFactor(row.resolution))
        IN  IF row.parserError THEN score \div 2 ELSE score]

AstConfidence(rows) == Least(Times(Mean(OfType(rows, {"ast"}), AstScore), 7000), 7000)

\* _apply_static_analysis: beside real implementation evidence a capped boost,
\* alone dampened.
Alone(rows) == Times(Mean(OfType(rows, {"static_analysis"}), Weighted), 8000)

DilutedByStatic(rows) == Mean(OfType(rows, Implementation \cup {"static_analysis"}), Weighted)
WithStatic(rows) ==
    LET impl == OfType(rows, Implementation)
    IN  IF impl = {} THEN Alone(rows)
        ELSE Mean(impl, Weighted)
             + Least(Times(Mean(OfType(rows, {"static_analysis"}), Weighted), 2500), 1500)

ImplementationConfidence(rows) ==
    LET static == ToUnit(WithStatic(rows))
    IN  IF OfType(rows, {"ast"}) = {} THEN static
        ELSE IF OfType(rows, Implementation) # {}
             THEN ToUnit(static + Least(Times(AstConfidence(rows), 2500), 1500))
             ELSE Greatest(static, AstConfidence(rows))

DocumentationConfidence(rows) ==
    ToUnit(Mean(OfType(rows, Docs \cup {"code_comment"}), DocScore))

\* _apply_coverage_runtime
CoverageConfidence(rows) ==
    ToUnit(Mean(OfType(rows, {"coverage"}), [e \in DOMAIN RowOf |-> AsShare(RowOf[e].score)]))

TestConfidence(rows) ==
    Greatest(ToUnit(Mean(CountedTests(rows), TestScore)), Times(CoverageConfidence(rows), 6000))

RuntimeConfidence(rows) ==
    ToUnit(Mean(OfType(rows, {"runtime"}),
                [e \in DOMAIN RowOf |-> IF RowOf[e].score >= 5000 THEN 7000 ELSE 4500]))

\* score_rule_confidence; human says that a human approval is on record.
BaseConfidence(rows) ==
    ToUnit(Times(ImplementationConfidence(rows), 3500) + Times(TestConfidence(rows), 2500)
           + Times(DocumentationConfidence(rows), 1500) + Times(RuntimeConfidence(rows), 1000)
           + Times(CoverageConfidence(rows), 1000))

OverallConfidence(rows, status, conflicts, human) ==
    LET base   == BaseConfidence(rows)
        agreed == IF conflicts THEN Times(base, 5500) ELSE base
    IN  IF status \in {"rejected", "deprecated"} THEN Times(agreed, 2500)
        ELSE IF status = "approved" /\ human THEN Greatest(agreed, 6000) ELSE agreed

-----------------------------------------------------------------------------
(***************************************************************************)
(* Gaps                                                                    *)
(***************************************************************************)

IntentSources == {"readme_doc", "design_doc", "ticket", "bdd_spec"}

\* analyze_rule_gaps; roles are those of all claims of the analysis version,
\* covered and observed say that the project has coverage and runtime reports.
GapTypes(rows, roles, covered, observed) ==
    LET impl   == OfType(rows, Implementation) # {} \/ "implementation" \in roles
        test   == OfType(rows, Tests) # {} \/ "verification" \in roles
        intent == OfType(rows, IntentSources) # {} \/ "product_intent" \in roles
    IN  {g \in {"missing_implementation", "missing_test", "missing_intent",
                "missing_coverage", "unobserved_runtime"} :
            CASE g = "missing_implementation" -> intent /\ ~impl
              [] g = "missing_test" -> impl /\ ~test
              [] g = "missing_intent" -> impl /\ ~intent
              [] g = "missing_coverage" -> impl /\ ~covered
              [] OTHER -> impl /\ ~observed}
=============================================================================
