\* Two sessions at once: a lock can be committed between the read and the commit of a form.
CONSTANTS
    Claims = {1, 2}
    Clusters = {k1, k2, k3, k4}
    Sessions = {s1, s2}
    MaxEdits = 2
    MaxSize = 2
    None = None
    Chunking <- MCChunking
SPECIFICATION Spec
SYMMETRY ClusterSymmetry
PROPERTIES LockedClustersPreserved
CHECK_DEADLOCK FALSE
