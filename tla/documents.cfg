SPECIFICATION DocumentsSpec
CONSTANTS
    Datasets = {"d1", "d2"}
    Pages = {1, 2}
    NoPage = NoPage
    Outputs <- MCOutputs
    MaxRuns = 2
    MaxResets = 1
    Inputs <- MCInputs
    NoRun = NoRun
    AnyDataset = AnyDataset
    TopK = 1
    MaxTurns = 1
INVARIANTS
    SummaryTrue
    ResetLeavesNothing
PROPERTIES
    AnswersInScope
CHECK_DEADLOCK FALSE
