SPECIFICATION Spec
CONSTANTS
    NoDataset = NoDataset
    NoManifest = NoManifest
    Jobs = {j1, j2}
    Datasets = {"d1", "d2"}
    Invocations <- MCInvocations
    EarlierDirs <- MCEarlierDirs
    MaxCrashes = 1
SYMMETRY JobSymmetry
INVARIANTS
    ManifestsWhole
    BatchTrue
    SummaryFollows
    CurrentIsNewest
CHECK_DEADLOCK FALSE
