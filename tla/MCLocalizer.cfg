CONSTANTS
    Kinds = {"grid", "adaptive", "viterbi"}
    W = 16
    Walls = {0, 1, 6, 14, 15}
    Factor <- MCFactor
    BeamMult <- MCBeamMult
    Win = 5
    MaxRange = 8
    RangeCap = 5
    SensorSigma = 1
    InitSigma = 2
    Skip = 3
    SubRank = 5
    Floor = 5
    ExpandQuality = 3
    ContractEss = 7
    Homes <- MCHomes
    MaxMoves = 2
    MaxJumps = 1
    MaxCalm = 18
SPECIFICATION Spec
INVARIANTS
    PoseIsFree
    LostHasHypotheses
    Relocalizes
CHECK_DEADLOCK FALSE
