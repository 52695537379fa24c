\* One session, no interference: merge or split, then form again.
CONSTANTS
    Claims = {1, 2}
    Clusters = {k1, k2, k3, k4}
    Sessions = {s1}
    MaxEdits = 2
    MaxSize = 2
    None = None
    Chunking <- MCChunking
SPECIFICATION Spec
SYMMETRY ClusterSymmetry
PROPERTIES ReformSeesDependentsGone
CHECK_DEADLOCK FALSE
