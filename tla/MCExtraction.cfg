CONSTANTS
    None = None
    Sessions = {s1, s2}
    Payloads <- MCPayloads
    Searches <- MCSearches
    TestNodes = {"d"}
    EdgesPerNode = 1
    MaxDepth = 3
    MostNodes = 200
    Batches <- MCBatches
    OldRules <- MCOldRules
    Pattern <- MCPattern
    ClaimOf <- MCClaimOf
    FeatureFiles = {"f"}
    Texts <- MCTexts
    Document <- MCDocument
    Definitions <- MCDefinitions
    NodeNamed <- MCNodeNamed
    Files = {1, 2}
    BatchSize = 1
    FeatureAt <- MCFeatureAt
    InitialTexts = {"steps", "stepless"}
    MaxOps = 2
    MaxSearches = 1
    MaxOverrides = 2
SPECIFICATION ExtractionSpec
INVARIANTS ExtractionTypeOK RunsAreComplete OverlapAddsNothing PathAnswersAreHonest NeighborhoodIsWhole EvidenceOnce FeaturesFollowFiles
PROPERTIES BatchLikeSingles EveryFileAttempted
CHECK_DEADLOCK FALSE
