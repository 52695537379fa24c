--------------------------- MODULE MCInvestigation ---------------------------
(***************************************************************************)
(* Two documents whose trees are rewritten into each other; pages of one   *)
(* and two children; subtrees cut by depth and by number; three tool       *)
(* calls.  The proposals say the same behavior with different evidence,    *)
(* one source under two roles, observed and inferred intent, an exception, *)
(* and each defect validation knows.                                       *)
(***************************************************************************)
EXTENDS Investigation, AgentContracts

CONSTANTS d1, d2, e1, e2, e3, here, elsewhere, t1, t2, t3

N(key, parent, ordinal, start, end) ==
    [key |-> key, parent |-> parent, ordinal |-> ordinal, start |-> start, end |-> end]

\* A tree of five nodes, a rewrite that moves and renames children, a tree
\* with a node that is its own ancestor, and one with two nodes in one place.
MCPayloads ==
    {{N(1, None, 0, 0, 8), N(2, 1, 0, 0, 4), N(3, 1, 1, 4, 8), N(4, 1, 2, 8, 8), N(5, 2, 0, 0, 4)},
     {N(1, None, 0, 0, 6), N(3, 1, 0, 0, 2), N(2, 1, 1, 2, 6)},
     {N(1, None, 0, 0, 8), N(2, 3, 0, 0, 4), N(3, 2, 0, 4, 8)},
     {N(1, None, 0, 0, 8), N(2, 1, 0, 0, 4), N(3, 1, 0, 4, 8)}}

MCDocumentOrder == <<d1, d2>>

MCLimits == [calls |-> 3, nodes |-> 7, errors |-> 1]

MCNormalForm == t1 :> t1 @@ t2 :> t1 @@ t3 :> t3

Model(structured, tools, context, cost) ==
    [structured |-> structured, tools |-> tools, parallel |-> "unknown", temperature |-> "supported",
     streaming |-> "unsupported", context |-> context, output |-> 2, location |-> "local",
     cost |-> cost]

MCCosts == [input : {None, 1, 3}, output : {None, 2}, currency : {"USD", "EUR"}]

MCModels ==
    {Model(s, t, c, k) : s \in {"none", "json_object", "json_schema"},
                         t \in {"supported", "unsupported", "unknown"},
                         c \in {None, 1, 2}, k \in MCCosts}
    \cup {Discovered([json_schema |-> TRUE, structured |-> TRUE, tools |-> TRUE, streaming |-> FALSE,
                      context |-> 2, output |-> 2], p, t, "remote", k) :
              p \in {"supported", "unknown"}, t \in {"supported", "unsupported", "unknown"}, k \in MCCosts}

Requires(known, max) ==
    [structured |-> "json_object", tools |-> TRUE, parallel |-> "forbidden", context |-> 2, output |-> 1,
     temperature |-> TRUE, streaming |-> FALSE, locations |-> {"local"}, inputMax |-> max,
     outputMax |-> None, currency |-> "USD", knownCost |-> known]

MCRequirements == Requires(FALSE, 2)

Evidence(role, source, scope, fields) ==
    [role |-> role, cite |-> [source |-> source, scope |-> scope], fields |-> fields]

Proposal(text, status, intent, exception, evidence) ==
    [text |-> text, behavior |-> t1, status |-> status, intent |-> intent, exception |-> exception,
     ast |-> <<>>, evidence |-> evidence, confidence |-> 1, uncertain |-> TRUE, approves |-> FALSE]

Plain(text, evidence) == Proposal(text, "not_established", None, None, evidence)

Implements(source) == Evidence("implementation", source, here, Mandatory)

Fields == Mandatory \cup {"inferred_product_intent"}

MCProposals ==
    {Plain(t1, <<Implements(e1)>>),
     [Plain(t2, <<Evidence("counterevidence", e1, here, {"actor"}), Implements(e2)>>) EXCEPT !.confidence = 2],
     Plain(t2, <<Implements(e1), Evidence("counterevidence", e1, here, Mandatory)>>),
     Plain(t1, <<Evidence("implementation", e1, here, {"actor"}), Evidence("counterevidence", e2, here, Mandatory)>>),
     Plain(t3, <<Implements(e1), Evidence("verification", e3, elsewhere, {"result"})>>),
     [Plain(t3, <<Implements(e3)>>) EXCEPT !.uncertain = FALSE],
     [Plain(t3, <<Implements(e3)>>) EXCEPT !.approves = TRUE],
     Proposal(t1, "observed", t3, None,
              <<Evidence("implementation", e1, here, Fields), Evidence("product_intent", e3, here, {"actor"})>>),
     Proposal(t2, "observed", t3, None,
              <<Evidence("implementation", e2, here, Fields), Evidence("verification", e3, here, {"actor"})>>),
     Proposal(t2, "inferred", t3, t1,
              <<Evidence("implementation", e2, here, Fields), Evidence("exception", e3, here, {"exception"})>>),
     Proposal(t3, "not_established", None, t1,
              <<Evidence("implementation", e2, here, Mandatory), Evidence("exception", e3, here, {"exception", "actor"})>>)}

\* Terminal decisions, with the shapes the contract refuses among them.
MCDecisions ==
    [kind : {"propose_rule", "stop"}, stop : {"rule_proposed", "budget_exhausted"},
     noRule : {None}, summary : BOOLEAN]
    \cup [kind : {"no_rule"}, stop : {"no_rule_found", "insufficient_evidence", "cancelled"},
          noRule : [reason : {"test_only", "insufficient_evidence"}, conclusive : BOOLEAN,
                    cites : BOOLEAN, uncertain : BOOLEAN], summary : {FALSE}]

-----------------------------------------------------------------------------

\* m promises at least what n promises, at costs that are known to be no higher.
AsGood(m, n) ==
    /\ Rank[m.structured] >= Rank[n.structured]
    /\ \A s \in {<<m.tools, n.tools>>, <<m.parallel, n.parallel>>, <<m.temperature, n.temperature>>,
                 <<m.streaming, n.streaming>>} : s[2] = "supported" => s[1] = "supported"
    /\ \A c \in {<<m.context, n.context>>, <<m.output, n.output>>} :
          c[2] # None => c[1] # None /\ c[1] >= c[2]
    /\ m.location = n.location /\ m.cost.currency = n.cost.currency
    /\ \A c \in {<<m.cost.input, n.cost.input>>, <<m.cost.output, n.cost.output>>} :
          IF c[2] = None THEN c[1] = None ELSE c[1] # None /\ c[1] <= c[2]

\* A better model is never blocked where a worse one passes, whatever the
\* requirements on cost; and a model no requirement can know enough about
\* (its context window is unknown) never passes (ast_agent_capabilities.py).
ASSUME BetterModelsPassToo ==
    \A r \in {Requires(k, c) : k \in BOOLEAN, c \in {None, 1, 2}} :
        /\ \A m, n \in MCModels : AsGood(m, n) /\ Compatible(n, r) => Compatible(m, r)
        /\ \A m \in MCModels : m.context = None => ~Compatible(m, r)

\* A snapshot that exceeds its budget is exhausted, and it is exhausted
\* exactly when some dimension has nothing left (ast_mcp/budgets.py).
ASSUME BudgetIsCoherent ==
    \A u \in [Dimensions -> 0 .. 3], limits \in [Dimensions -> 1 .. 2] :
        /\ Exceeded(u, limits) # {} => Exhausted(u, limits)
        /\ Exhausted(u, limits) <=> \E d \in Dimensions : Remaining(u, limits)[d] = 0

Errors == {ErrorForCode(c, "m", Unknown) : c \in {"timeout", "not_found"}}
          \cup [code : {"timeout", "not_found"}, message : {"m"}, retryable : BOOLEAN, retryAfter : {1}]

Outcomes ==
    [status : OutcomeStatus, stop : {"completed", "time_limit"}, message : {Unknown},
     error : Errors \cup {Unknown}, resumable : BOOLEAN, cursor : {Unknown, Blank, "c"}]

\* What for_code makes always constructs, unless it is told when to retry what
\* must not be; a tool result can carry the status and error of any outcome;
\* and what may be resumed after an error never has one that is final for the
\* investigation: it is neither complete, cancelled nor failed (outcomes.py).
ASSUME OutcomesAreCoherent ==
    /\ \A code \in {"timeout", "not_found"}, after \in {Unknown, 1} :
          ValidToolError(ErrorForCode(code, "m", after)) <=> (after = Unknown \/ code = "timeout")
    /\ \A o \in Outcomes : ValidOutcome(o) =>
          /\ ValidToolResult([id |-> 1, tool |-> "t", trace |-> [id |-> 1, tool |-> "t"],
                             status |-> o.status, error |-> o.error, payload |-> Unknown])
          /\ o.cursor # Unknown => o.status \in {"partial", "truncated", "blocked"}

Target(id) == [id |-> id, reason |-> "r", path |-> Unknown, priority |-> 100]

\* Following the cursors of an orientation and of a selection ends where
\* nothing was cut, and an orientation that shows nothing of documents it has
\* was cut, whether or not it says where to go on (steps.py).
ASSUME StepsAreCoherent ==
    /\ \A o \in [languages : {<<>>, <<"python", "python">>}, documents : 0 .. 1, targets : {<<>>, <<"a">>},
                 summary : {"s", Blank}, truncated : BOOLEAN, cursor : {Unknown, Blank, "c"}] :
          ValidOrientation(o) =>
              /\ ~o.truncated => o.cursor = Unknown /\ (o.documents > 0 => o.targets # <<>>)
              /\ Values(o.targets) \cap {Blank} = {}
    /\ \A s \in [selected : {<<>>, <<Target("a")>>, <<Target("a"), Target("a")>>, <<Target("a"), Target("b")>>},
                 rejected : {<<>>, <<"b">>, <<"b", "b">>}, truncated : BOOLEAN, cursor : {Unknown, "c"}] :
          ValidSelection(s) =>
              /\ Cardinality({s.selected[i].id : i \in DOMAIN s.selected} \cup Values(s.rejected))
                    = Len(s.selected) + Cardinality(Values(s.rejected))
              /\ ~s.truncated => s.cursor = Unknown
=============================================================================
