SPECIFICATION FairSpec
CONSTANTS
    Runs = {"r1", "r2"}
    MentionIds = {1}
    Texts <- TwoTexts
    RawTypes <- OneType
    NormalizeType <- MCNormalizeType
    Canonicals = {"k1", "k2", "k3"}
    StructuredRuns = {"s1", "s2"}
    Datasets = {"d1", "d2"}
    Entity <- MCEntity
    Shown <- MCShown
    RowLimit = 1
    Jobs = {j1}
    Qids = {}
    ClusterRows <- MCClusterRows
    MaxStarts = 2
    MaxDryRuns = 0
    MaxExtractions = 2
    MaxIngests = 2
    MaxResets = 0
    MaxCrashes = 0
INVARIANTS
    RunScoped
    ReadersAgree
PROPERTIES
    AdditiveByRun
    PassClusters
CHECK_DEADLOCK FALSE
