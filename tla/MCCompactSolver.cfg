SPECIFICATION Spec
CONSTANTS
    None = None
    Width = 3
    Height = 6
    NumTheta = 2
    NumActions = 3
    Trans <- MCTrans
    Reach = 1
    ProbBase = 4
    Word = 2048
    MaxCost = 1906
    Sweeps = 16
    Worlds <- MCWorlds
    Entries = {"slice", "mapped"}
    BandOverride = None
    CoupleSafety = 4
    BlockRows = 2
    NThreads = 2
    MinCols = 3
    Flows = {"Continue", "Stop", "Cancel"}
    ReachThresh = 40
    MayCancel = TRUE
INVARIANTS
    ExactPrefix
    ConvergedIsComplete
    WindowsResident
CHECK_DEADLOCK FALSE
