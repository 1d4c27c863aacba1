SPECIFICATION FairSpec
CONSTANTS
    g1 = g1
    g2 = g2
    r1 = r1
    r2 = r2
    p1 = p1
    None = None
    RelocGoal = RelocGoal
    Goal = {g1, g2}
    Request = {r1}
    Plan = {p1}
    Kinds = {"tour"}
    Routes <- Tours
    Failing = {g2}
    EarlyStart = TRUE
    ActiveReloc = TRUE
    LostCreep = TRUE
    Contention = TRUE
    LostBudget = 1
    BusyTicks = 3
    RetryLimit <- NoLimit
    StopOnFailure = FALSE
INVARIANTS
    StaleCommandEnds
    SolvesStandingStill
PROPERTIES
    CancelledEnds
CHECK_DEADLOCK FALSE
