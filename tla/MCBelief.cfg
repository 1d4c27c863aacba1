SPECIFICATION Spec
CONSTANTS
    Kinds <- Sound
    W = 10
    Walls = {0, 5, 9}
    Ghosts = {5}
    Side = 2
    Alcoves = {3}
    MapClear = TRUE
    MaxRange = 9
    SensorSigma = 0
    LostSlope = 5
    LostMinKnown = 1
    InitSigma = 2
    BeamMult = 2
    MixRank = 20
    LostEss = 10
    TopK = 6
    ModeCap = 12
    ModeSep = 2
    HoldObs = 2
    ProbationObs = 1
    MinD = 1
    MatchRetry = 1
    Anneal = 1
    Stride = 4
    Branches = 8
    RematchR = 2
    Homes <- Home
    Spots <- Elsewhere
    MaxMoves <- Commands
    MaxJumps = 1
    MaxCalm <- Scans
INVARIANTS
    WrongPoseIsNoticed
PROPERTIES
    TruthSurvives
    EmptyIsReseeded
CHECK_DEADLOCK FALSE
