CONSTANTS
    Bytes = {0, 1}
    Capacity = 2
    Processes = {p1, p2}
    InitProcess = p1
    MaxFiles = 2
    MAX_TRACKED_PIPES = 4
    PipeIds = {x1}
    ChunkSize = 2
    ReadCounts = {1, 3}
    Writes <- MCWrites
SPECIFICATION Spec
INVARIANTS
    CountsAreTracked
    OpenFilesAreTracked
PROPERTIES
    ImplementsChannel
    HangUpReachesSleepers
