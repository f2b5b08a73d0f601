SPECIFICATION Spec
CONSTANTS
    Payload = 2
    MaxPackets = 2
    TqSize = 2
    PendingSize = 1
    Mod = 5
    HostBuf = 3
    HostSizes = {1}
    ReadLens = {1}
    WriteLens = {4}
    MaxGen = 1
    MaxHost = 4
    MaxGuest = 8
    MaxExtra = 1
    MaxOps = 2
CHECK_DEADLOCK FALSE
INVARIANT
    NothingDropped
