\* Two sessions whose operations overlap: what holds nevertheless.
CONSTANTS
    Claims = {1, 2}
    Clusters = {k1, k2, k3, k4, k5}
    Sessions = {s1, s2}
    MaxEdits = 3
    MaxSize = 2
    None = None
    Chunking <- MCChunking
SPECIFICATION Spec
SYMMETRY ClusterSymmetry
INVARIANTS TypeOK
PROPERTIES CitedClustersSurvive
\* Every edit used up and no form under way: the sessions may stop.
CHECK_DEADLOCK FALSE
