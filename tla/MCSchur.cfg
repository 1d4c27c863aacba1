SPECIFICATION Spec
CONSTANTS
    None = None
    Width = 6
    Height = 3
    NumTheta = 2
    NumActions = 3
    Trans <- MCTrans
    Reach = 1
    ProbBase = 2
    Word = 1024
    MaxCost = 1906
    Sweeps = 12
    Worlds <- MCWorlds
    Queries <- MCQueries
    Configs <- MCConfigs
    Tile = 2
    PatchR = 1
    PatchT = 0
    TileMaxIter = 8
    Tol = 1
    Stable = 2
    GpuMaxPasses = 8
    JudgeEvery = 2
    Widen = 1
    NThreads = 2
    MaxIter = 12
    Interval = 2
    Flows = {"Continue", "Stop", "Cancel"}
    ReachThresh = 40
INVARIANTS
    UpperBound
    ConvergedIsOriginal
    CorridorIsSound
    MergedFieldDescends
CHECK_DEADLOCK FALSE
