SPECIFICATION FairSpec
CONSTANTS
    Threads = {t1, t2}
    Size = 2
    Mod = 4
    Lens = {1, 3}
    EMax = 2
    EVals = {1, 2}
    Polls <- PollArgs
    MaxOps = 3
    NoOne = NoOne
CHECK_DEADLOCK FALSE
INVARIANTS
    TypeOK
    SleepersHaveCause
    BufferFreedOnce
PROPERTIES
    PipeImplementsStream
    HangupReleases
    PollReturns
