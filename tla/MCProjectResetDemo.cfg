CONSTANT Purges = {"demo"}
SPECIFICATION Spec
INVARIANT OrderIsSafe
\* A purge ends.
CHECK_DEADLOCK FALSE
