CONSTANTS
    INVALID = INVALID
    NULL = NULL
    MaxProcesses = 4
    Spaces = {s1, s2, s3, s4}
    Signals = {}
    MaxTicks = 1
    SystemCalls = {"fork", "forkfail", "vfork", "execve", "exit", "wait", "nanosleep", "tty"}
    SentSignals = {}
    ManagedSignals = {}
    SignalsToSelf = FALSE
    InstalledHandlers = {}
    MaxInput = 2
SPECIFICATION Spec
INVARIANTS
    OneRunning
    AddressSpacesOwned
    Isolation
    BlockedIsWakeable
SYMMETRY SpaceSymmetry
