CONSTANTS
    INVALID = INVALID
    NULL = NULL
    MaxProcesses = 3
    Spaces = {s1}
    Signals = {17}
    MaxTicks = 2
    SystemCalls = {"clone", "nanosleep", "sigprocmask", "futex", "event", "kill", "sigaction", "sigreturn"}
    SentSignals = {17}
    ManagedSignals = {17}
    SignalsToSelf = FALSE
    InstalledHandlers = {"FUNCTION"}
    MaxInput = 1
SPECIFICATION Spec
INVARIANTS
    BlockedIsWakeable
    NoStaleWaiters
    NoSpuriousInterrupt
SYMMETRY SpaceSymmetry
