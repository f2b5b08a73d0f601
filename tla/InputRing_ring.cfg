SPECIFICATION Spec
CONSTANTS
    Cap = 2
    Mod = 4
    Attempts = 2
    MaxEvents = 5
    MaxMotions = 2
    MaxMasks = 1
    Modes = {"next", "peek", "query"}
VIEW LiveView
CHECK_DEADLOCK FALSE
INVARIANTS
    EventsWhole
    MotionWhole
    MotionCurrent
PROPERTY
    RingImplementsQueue
