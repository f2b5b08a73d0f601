SPECIFICATION FairSpec
CONSTANTS
    Threads = {t1, t2, t3}
    Slots = {0, 1}
    Keys = {k1}
    Deltas <- MixedDeltas
    MaxValue = 2
    MaxOps = 5
    Private = Private
CHECK_DEADLOCK FALSE
INVARIANTS
    TypeOK
    WaitersExact
    NobodyStranded
PROPERTY
    WaitersReleased
