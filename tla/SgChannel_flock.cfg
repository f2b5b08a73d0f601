SPECIFICATION FairSpec
CONSTANTS
    Threads = {m, t1}
    Main = m
    Ops = {"FLOCK_EX", "FLOCK_UN"}
    MaxCalls = 2
    SemInit = 0
    SemMax = 1
    NoOne = NoOne
CHECK_DEADLOCK FALSE
PROPERTY
    RequestCompletes
