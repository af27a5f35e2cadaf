CONSTANTS
    Player = {p1, p2}
    Nobody = Nobody
    Loopback = Loopback
    NumSlots = 2
    sv_privateClients = 1
    Recorded = {0}
    sv_timeout = 1
    sv_zombietime = 1
    sv_reconnectlimit = 1
    MaxTimeoutCount = 1
SPECIFICATION FairSpec
INVARIANTS TypeOK OneSlot GameAgrees ReservedKept
PROPERTIES SlotsFreed
