SPECIFICATION Spec
CONSTANTS
    None = None
    Width = 3
    Height = 1
    NumTheta = 3
    NumActions = 3
    Trans <- MCTrans
    Reach = 1
    ProbBase = 2
    Word = 128
    MaxCost = 238
    Sweeps = 10
    Algs = {"reference", "stream", "frontier2d", "frontier3d", "stack", "block", "pyramid", "par", "prio_ls", "prio_lc", "multi", "ordered", "gpu"}
    Worlds <- MCWorlds
    MaxIter = 9
    Times = 2
    Interval = 2
    Flows = {"Continue", "Stop", "Cancel"}
    ReachThresh = 40
    Finest = 1
    CoarseSizes <- MCCoarse
    CoarseBudget = 1
    LocalSweeps = 2
    Stride = 5
    BucketWidth = 2
    Buckets = 6
    Block = 1
    NThreads = 2
    ThreadNum = 2
    Resident = 2
INVARIANTS
    ConvergedIsOriginal
    UpperBound
    StoppedFieldDescends
    SingleWriter
PROPERTIES
    ImplementsRelaxation
CHECK_DEADLOCK FALSE
