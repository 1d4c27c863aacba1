SPECIFICATION FairSpec
CONSTANTS
    a = a
    b = b
    c = c
    u = u
    None = None
    RelocGoal = RelocGoal
    Goal <- MCGoal
    Lists <- MCLists
    Failing <- MCFailing
INVARIANTS
    WithdrawnIsStopped
    PrefetchIsNext
PROPERTIES
    AdoptReturns
    NextIsPrefetched
