----------------------------- MODULE AgentModels -----------------------------
(***************************************************************************)
(* Which models may run an investigation, and what it may still spend.     *)
(* evaluate_ast_agent_capabilities of ast_agent_capabilities.py compares   *)
(* the capabilities of a model with the requirements; the budget contract  *)
(* is ast_mcp/budgets.py.                                                  *)
(*                                                                         *)
(* Abstractions: context windows, output tokens and costs are small        *)
(* integers; three of the six budget dimensions (calls, nodes, errors)     *)
(* stand for all, since each is counted and compared in the same way.      *)
(***************************************************************************)
EXTENDS Integers, FiniteSets

CONSTANT Unknown    \* a number the provider does not publish, or no maximum

Rank == [none |-> 0, json_object |-> 1, json_schema |-> 2]

\* capabilities_from_discovered_model: what the listing of a provider says is
\* supported or unsupported; the rest comes from the caller.
Discovered(listed, parallel, temperature, location, cost) ==
    [structured |-> IF listed.json_schema THEN "json_schema"
                    ELSE IF listed.structured THEN "json_object" ELSE "none",
     tools |-> IF listed.tools THEN "supported" ELSE "unsupported",
     parallel |-> parallel, temperature |-> temperature,
     streaming |-> IF listed.streaming THEN "supported" ELSE "unsupported",
     context |-> listed.context, output |-> listed.output,
     location |-> location, cost |-> cost]

\* _check_support and _check_numeric_minimum: unknown never passes.
Lacks(support, required) == required /\ support # "supported"

Below(actual, minimum) == actual = Unknown \/ actual < minimum

\* _check_costs: a known cost in another currency blocks; an unknown cost
\* blocks only when the requirement says costs must be known.
TooDear(actual, maximum) == actual # Unknown /\ maximum # Unknown /\ actual > maximum

CostBlocks(cost, r) ==
    IF (cost.input # Unknown \/ cost.output # Unknown) /\ cost.currency # r.currency
    THEN {"cost_currency"}
    ELSE {c \in {"input_cost", "output_cost", "cost_unknown"} :
             \/ c = "input_cost" /\ TooDear(cost.input, r.inputMax)
             \/ c = "output_cost" /\ TooDear(cost.output, r.outputMax)
             \/ c = "cost_unknown" /\ r.knownCost /\ Unknown \in {cost.input, cost.output}}

\* evaluate_ast_agent_capabilities: the blockers.
Blockers(m, r) ==
    CostBlocks(m.cost, r) \cup
    {c \in {"structured_output", "tool_calling", "parallel_tool_calling", "context_window",
            "output_tokens", "deterministic_temperature", "streaming", "execution_location"} :
        \/ c = "structured_output" /\ Rank[m.structured] < Rank[r.structured]
        \/ c = "tool_calling" /\ Lacks(m.tools, r.tools)
        \/ c = "parallel_tool_calling" /\ Lacks(m.parallel, r.parallel = "required")
        \/ c = "context_window" /\ Below(m.context, r.context)
        \/ c = "output_tokens" /\ Below(m.output, r.output)
        \/ c = "deterministic_temperature" /\ Lacks(m.temperature, r.temperature)
        \/ c = "streaming" /\ Lacks(m.streaming, r.streaming)
        \/ c = "execution_location" /\ m.location \notin r.locations}

Compatible(m, r) == Blockers(m, r) = {}

-----------------------------------------------------------------------------
(* AstMcpBudgetLimits, AstMcpBudgetConsumption, AstMcpBudgetSnapshot.      *)

Dimensions == {"calls", "nodes", "errors"}

NothingUsed == [d \in Dimensions |-> 0]

\* add
Spent(used, delta) == [d \in Dimensions |-> used[d] + delta[d]]

\* exhausted is >=, exceeded is >.
Exhausted(used, limits) == \E d \in Dimensions : used[d] >= limits[d]

Exceeded(used, limits) == {d \in Dimensions : used[d] > limits[d]}

Remaining(used, limits) ==
    [d \in Dimensions |-> IF limits[d] > used[d] THEN limits[d] - used[d] ELSE 0]
=============================================================================
