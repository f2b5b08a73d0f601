SPECIFICATION FairSpec
CONSTANTS
    Threads = {m, t1}
    Main = m
    Ops = {"SYSCALL", "NORET", "SEMWAIT", "SEMPOST", "FLOCK_NB", "FLOCK_UN"}
    MaxCalls = 2
    SemInit = 0
    SemMax = 1
    NoOne = NoOne
INVARIANTS
    TypeOK
    SingleProducer
    ReplyIsOwn
    SetupIsolated
PROPERTIES
    RequestCompletes
    SemopServed
