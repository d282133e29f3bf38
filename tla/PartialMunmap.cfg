SPECIFICATION Spec
CONSTANTS
    TotalNumberOfPages = 6
    MAX_BUDDY_ORDERS = 3
    Processes = {p1, p2}
    InitProcess = p1
    Callers = {p1}
    MaxMappings = 2
    AreaPages = 5
    RequestSizes = {1, 3, 4}
    ProbeStep = 2
    PartialUnmap = TRUE
INVARIANT
    MappedIsNotFree
