CONSTANTS
    Claims = {1, 2, 3}
    Clusters = {k1, k2, k3, k4}
    Sessions = {s1}
    MaxEdits = 2
    MaxRuns = 3
    None = None
    Chunking <- Singletons
    Texts <- MCTexts
SPECIFICATION CanonSpec
SYMMETRY ClusterSymmetry
INVARIANTS CanonTypeOK OneEmissionPerDomain AttachmentsReachPrimary OutdatedStaysEvidence
PROPERTIES RerunStable
\* Edits and runs used up: the system may stop.
CHECK_DEADLOCK FALSE
