SPECIFICATION FairSpec
CONSTANTS
    None = None
    Unreached = Unreached
    Width = 2
    Height = 2
    NumTheta = 4
    NumActions = 3
    Trans <- MCTrans
    Reach = 1
    ProbBase = 2
    Word = 128
    MaxCost = 238
    Engines = {"sparse", "fused", "unsafe"}
    Workers = 2
    Block = 2
    MaxIter = 12
    Interval = 1
    Flows = {"Continue", "Stop", "Cancel"}
    Free <- MCFree
    Pen <- After
    Final <- MCFinal
    Starts <- FromBoth
    Sweeps = 6
    ReachThresh = 40
INVARIANTS
    OneWriter
    NothingForgotten
    ConvergedIsConsistent
    ConvergedIsOriginal
    StoppedFieldDescends
PROPERTY Terminates
CHECK_DEADLOCK FALSE
