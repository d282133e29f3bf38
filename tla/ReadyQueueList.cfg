CONSTANTS
    Tags = {t1, t2, t3, t4}
    ProcessIds = {p1, p2}
    INVALID = INVALID
    NULL = NULL
SPECIFICATION Spec
INVARIANTS
    ListWellFormed
    CurrentIsHead
    WalksStayInList
PROPERTIES
    RemoveReturns
    ImplementsScheduler
