--------------------------- MODULE AgentContracts ---------------------------
(***************************************************************************)
(* The records an investigation exchanges with a model and with its tools: *)
(* which of them construct (investigation/steps.py, ast_mcp/outcomes.py,   *)
(* ast_mcp/budgets.py).  A text is blank or a value; the check of the      *)
(* tools' JSON arguments is left out.  Unknown is the absence of a field.  *)
(***************************************************************************)
EXTENDS AgentModels, Sequences

CONSTANTS
    Blank,                  \* a text of nothing but space
    MaxOrientationTargets,  \* 200
    MaxToolResultBytes      \* 2_000_000

Distinct(seq) == \A i, j \in DOMAIN seq : i # j => seq[i] # seq[j]

Values(seq) == {seq[i] : i \in DOMAIN seq}

\* Only a list that was cut has a cursor; one that was cut may have none.
ValidCursor(record) ==
    record.cursor # Blank /\ (record.cursor # Unknown => record.truncated)

ValidLimits(limits) == \A d \in Dimensions : limits[d] > 0

ValidOrientation(o) ==
    /\ Blank \notin Values(o.languages) \cup Values(o.targets) \cup {o.summary}
    /\ Distinct(o.languages)
    /\ o.targets = <<>> /\ o.documents > 0 => o.truncated
    /\ Len(o.targets) <= MaxOrientationTargets
    /\ ValidCursor(o)

ValidTarget(t) ==
    Blank \notin {t.id, t.reason, t.path} /\ t.priority \in 0 .. 100

\* The same target twice in the rejected ones is let through.
ValidSelection(s) ==
    LET ids == [i \in DOMAIN s.selected |-> s.selected[i].id]
    IN  /\ \A i \in DOMAIN s.selected : ValidTarget(s.selected[i])
        /\ Distinct(ids)
        /\ Blank \notin Values(s.rejected)
        /\ Values(ids) \cap Values(s.rejected) = {}
        /\ ValidCursor(s)

RetryableErrorCodes == {"rate_limited", "timeout", "temporarily_unavailable"}

ValidToolError(e) ==
    /\ e.message # Blank
    /\ e.retryAfter # Unknown => e.retryable
    /\ e.retryable = (e.code \in RetryableErrorCodes)

\* for_code
ErrorForCode(code, message, retryAfter) ==
    [code |-> code, message |-> message, retryable |-> code \in RetryableErrorCodes,
     retryAfter |-> retryAfter]

\* AstMcpOutcomeStatus
OutcomeStatus == {"complete", "partial", "truncated", "blocked", "cancelled", "failed"}

\* AstMcpInvestigationOutcome; a status other than complete goes with any stop
\* reason, completed among them.
ValidOutcome(o) ==
    /\ Blank \notin {o.message, o.cursor}
    /\ o.error # Unknown => ValidToolError(o.error)
    /\ o.status = "complete" => o.stop = "completed" /\ o.error = Unknown
    /\ o.status = "failed" => o.error # Unknown
    /\ o.resumable = (o.cursor # Unknown)
    /\ o.status \in {"complete", "cancelled", "failed"} => ~o.resumable

\* AstModelToolRequest, AstToolResultEnvelope
ValidToolRequest(r) == Blank \notin {r.id, r.purpose}

ValidToolResult(r) ==
    /\ r.id # Blank /\ r.id = r.trace.id /\ r.tool = r.trace.tool
    /\ r.status = "failed" => r.error # Unknown
    /\ r.status = "complete" => r.error = Unknown
    /\ r.error # Unknown => ValidToolError(r.error)
    /\ r.payload # Unknown => r.payload <= MaxToolResultBytes
=============================================================================
