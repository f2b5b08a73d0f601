SPECIFICATION FairSpec
CONSTANTS
    Cap = 2
    Mod = 4
    Attempts = 3
    MaxEvents = 1
    MaxMotions = 2
    MaxMasks = 1
    Modes = {"next"}
CHECK_DEADLOCK FALSE
PROPERTY
    EventDelivered
