SPECIFICATION FairSpec
CONSTANTS
    Threads = {t1, t2}
    AutoClear = TRUE
    InitSignaled = FALSE
    Timeouts = {"timed"}
    MaxOps = 1
    NoOne = NoOne
    Isr = Isr
CHECK_DEADLOCK FALSE
PROPERTY
    TimeoutHonoured
