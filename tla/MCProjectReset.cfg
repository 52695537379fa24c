CONSTANT Purges = {"analysis", "demo"}
SPECIFICATION Spec
INVARIANTS TypeOK AnalysisOrderIsSafe DemoOrderSafeButForNodes
\* A purge ends.
CHECK_DEADLOCK FALSE
