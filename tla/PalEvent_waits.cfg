SPECIFICATION FairSpec
CONSTANTS
    Threads = {t1, t2}
    AutoClear = TRUE
    InitSignaled = FALSE
    Timeouts = {"none", "zero", "timed"}
    MaxOps = 2
    NoOne = NoOne
    Isr = Isr
CHECK_DEADLOCK FALSE
INVARIANTS
    NoLostWakeup
    SleepersCounted
PROPERTIES
    SignalReleasesWaiter
    SetReturns
    TimeoutWakes
