SPECIFICATION Spec
CONSTANTS
    g1 = g1
    f1 = f1
    f2 = f2
    None = None
    Width = 4
    Height = 1
    NumTheta = 1
    NumActions = 2
    Trans <- MCTrans
    Reach = 1
    ProbBase = 1
    Word = 64
    MaxCost = 238
    Goal = {g1}
    Final <- MCFinal
    MapFree <- MCMapFree
    MapPen <- MCMapPen
    Pens = {1, 4}
    Solved <- MCSolved
    Early <- MCEarly
    Windows <- MCWindows
    InitWindow <- MCInitWindow
    Follower = {f1, f2}
    GlobalSweep = TRUE
    MapClear = TRUE
    Jacobi = TRUE
    MaxEpoch = 2
    MaxSerial = 4
    MaxRevision = 3
    Budgets = {2}
    RecheckLimit = 2
SYMMETRY Followers
INVARIANTS
    TypeOK
    CertifiedIsFixpoint
    SettledIsFixpoint
    SnapshotsAreCurrent
CHECK_DEADLOCK FALSE
ACTION_CONSTRAINT PassesFirst
