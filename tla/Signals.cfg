CONSTANTS
    INVALID = INVALID
    NULL = NULL
    MaxProcesses = 3
    Spaces = {s1, s2}
    Signals = {9, 14, 18, 19}
    MaxTicks = 1
    SystemCalls = {"fork", "forkfail", "exit", "nanosleep", "pause", "kill", "exception", "sigaction", "sigreturn", "sigsuspend"}
    SentSignals = {9, 14, 18, 19}
    SignalsToSelf = TRUE
    ManagedSignals = {14}
    InstalledHandlers = {"FUNCTION"}
    MaxInput = 0
SPECIFICATION Spec
INVARIANTS
    QueueMatchesStatus
    WaitersBlocked
    SuspendMissesNoSignal
SYMMETRY SpaceSymmetry
