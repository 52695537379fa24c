CONSTANTS
    Versions = {v1, v2}
    Files = {f1, f2}
    Contents = {c1}
    root = root
    child = child
    Trees <- MCTrees
    NoBlob = NoBlob
    MaxLinks = 1
    Sessions = {s1}
    None = None
SPECIFICATION Spec
SYMMETRY VersionSymmetry
INVARIANTS TypeOK LinksResolve PersistedDocumentsDecode ActiveNeverSuperseded
PROPERTIES DecodedTreesNeverChange RetentionSparesLiveVersions ActivatedAlone
