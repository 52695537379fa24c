\* Two sessions whose operations overlap: the documented restriction of retention fails.
CONSTANTS
    Versions = {v1, v2}
    Files = {f1}
    Contents = {c1}
    root = root
    child = child
    Trees <- MCTrees
    NoBlob = NoBlob
    MaxLinks = 0
    Sessions = {s1, s2}
    None = None
SPECIFICATION Spec
PROPERTIES RetentionSparesLiveVersions
