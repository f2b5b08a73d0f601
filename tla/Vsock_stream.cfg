SPECIFICATION Spec
CONSTANTS
    Payload = 2
    MaxPackets = 2
    TqSize = 2
    PendingSize = 1
    Mod = 7
    HostBuf = 4
    HostSizes = {2}
    ReadLens = {1, 3}
    WriteLens = {6}
    MaxGen = 1
    MaxHost = 6
    MaxGuest = 10
    MaxExtra = 1
    MaxOps = 2
CHECK_DEADLOCK FALSE
INVARIANTS
    GuestNotOverrun
    NothingDropped
    BytesInOrder
    HostNotOverrun
    FreeListExact
