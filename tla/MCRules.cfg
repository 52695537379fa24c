CONSTANTS
    None = None
    RowOf <- MCRowOf
    Overrides <- MCOverrides
    TextOf <- MCTextOf
    PathOf <- MCPathOf
    RuleIds <- MCRuleIds
    Project <- MCProject
    Version <- MCVersion
    Identity <- MCIdentity
    Fingerprints <- MCFingerprints
    CategoryOf <- MCCategoryOf
    Requests <- MCRequests
    FirstPrints <- MCFirstPrints
    Owners <- MCOwners
    Sessions = {s1, s2}
    MaxSteps = 3
SYMMETRY MCSymmetry
SPECIFICATION RulesSpec
INVARIANTS RulesTypeOK LineageIsSound GroupsMissNothing ObservationsOnlyCorroborate
PROPERTIES DecisionsStand MergingAddsNoGap
CHECK_DEADLOCK FALSE
