SPECIFICATION Spec
CHECK_DEADLOCK FALSE
CONSTANTS
    d1 = d1
    d2 = d2
    e1 = e1
    e2 = e2
    e3 = e3
    t1 = t1
    t2 = t2
    t3 = t3
    here = here
    elsewhere = elsewhere
    None = None
    Unknown = None
    Absent = None
    DocumentOrder <- MCDocumentOrder
    Payloads <- MCPayloads
    Offsets = {0, 3, 6}
    PageSizes = {1, 2}
    Depths = {1, 3}
    NodeLimits = {1, 3, 5}
    NormalForm <- MCNormalForm
    Certain = 2
    Models <- MCModels
    Requirements <- MCRequirements
    Limits <- MCLimits
    Decisions <- MCDecisions
    Proposals <- MCProposals
    Scope = here
    Allowed = {}
    MaxProposals = 2
    Blank = Blank
    MaxOrientationTargets = 1
    MaxToolResultBytes = 2000000
INVARIANTS
    PagesAreWhole
    AnswersAreWhole
    ClaimsAreGrounded
