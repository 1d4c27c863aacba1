SPECIFICATION Spec
CONSTANTS
    g1 = g1
    f1 = f1
    None = None
    Width = 4
    Height = 1
    NumTheta = 1
    NumActions = 2
    Trans <- MCTrans
    Reach = 1
    ProbBase = 1
    Word = 64
    MaxCost = 238
    Sweeps = 0
    Robot <- Robots
    Goal = {g1}
    Solved <- MCSolved
    Early <- MCEarly
    MapFree <- MCMapFree
    MapPen <- MCMapPen
    WinRange = 0
    Slack = 1
    Interior = 2
    Pens = {0, 3}
    Margin = 0
    Sigma = 1
    SigmaPen = 3
    MapClear = FALSE
    Jacobi = FALSE
    Follower = {f1}
    MaxEpoch = 2
    MaxSerial = 1000
    MaxRevision = 5
    RecheckLimit = 1000
INVARIANTS
    PatchIsSink
    WindowFits
    SettledIsFixpoint
CHECK_DEADLOCK FALSE
VIEW Agreement
