CONSTANTS
    INVALID = INVALID
    NULL = NULL
    MaxProcesses = 3
    Spaces = {s1, s2}
    Signals = {14}
    MaxTicks = 1
    SystemCalls = {"fork", "exit", "nanosleep", "setitimer"}
    SentSignals = {}
    SignalsToSelf = FALSE
    ManagedSignals = {}
    InstalledHandlers = {}
    MaxInput = 0
SPECIFICATION Spec
PROPERTIES
    ReadyGetsProcessor
    SleeperWakes
