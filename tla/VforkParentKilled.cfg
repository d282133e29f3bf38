CONSTANTS
    INVALID = INVALID
    NULL = NULL
    MaxProcesses = 4
    Spaces = {s1, s2, s3, s4}
    Signals = {9}
    MaxTicks = 1
    SystemCalls = {"fork", "vfork", "kill"}
    SentSignals = {9}
    ManagedSignals = {9}
    SignalsToSelf = FALSE
    InstalledHandlers = {}
    MaxInput = 0
SPECIFICATION Spec
INVARIANTS
    Isolation
SYMMETRY SpaceSymmetry
