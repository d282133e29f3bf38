CONSTANTS
    Processes = {p1, p2}
    InitProcess = p1
    MaxFiles = 3
    MAX_TRACKED_SOCKETS = 3
    ReceiveBufferCapacity = 1
    EphemeralPorts = {1, 2}
    Kinds <- MCKinds
    Addresses <- MCAddresses
    Backlogs = {0, 1}
    Timeouts <- MCTimeouts
    PollSize = 2
    MaxEvents = 1
    MaxCalls = 4
SPECIFICATION Spec
CHECK_DEADLOCK FALSE
INVARIANTS
    PeersAreConsistent
    AddressesAreExclusive
    PollMatchesCalls
    SocketsAreTracked
    WatchesAreCurrent
PROPERTIES
    PollReturns
