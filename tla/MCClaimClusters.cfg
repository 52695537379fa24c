\* Two reforms of three claims need five identifiers with a split between them.
CONSTANTS
    Claims = {1, 2, 3}
    Clusters = {k1, k2, k3, k4, k5}
    Sessions = {s1}
    MaxEdits = 3
    MaxSize = 2
    None = None
    Chunking <- MCChunking
SPECIFICATION Spec
SYMMETRY ClusterSymmetry
INVARIANTS OneClusterPerClaim LockedStatusAgrees
PROPERTIES LockedClustersPreserved FormCoversEveryClaim ImplementsAssignment
\* Every edit used up and no form under way: the sessions may stop.
CHECK_DEADLOCK FALSE
