SPECIFICATION Spec
CONSTANTS
    g1 = g1
    g2 = g2
    r1 = r1
    r2 = r2
    p1 = p1
    None = None
    RelocGoal = RelocGoal
    Goal = {g1, g2}
    Request = {r1, r2}
    Plan = {}
    Kinds = {"path", "goal", "tour"}
    Routes <- Tours
    Failing = {g2}
    EarlyStart = FALSE
    ActiveReloc = TRUE
    LostCreep = TRUE
    Contention = TRUE
    LostBudget = 1
    BusyTicks = 1
    RetryLimit = 1
    StopOnFailure = FALSE
SYMMETRY Requests
INVARIANTS
    NobodyDrivesIsStopped
    AtMostOneLateMotion
CHECK_DEADLOCK FALSE
