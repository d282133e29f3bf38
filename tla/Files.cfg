CONSTANTS
    InodesCount = 8
    InodesPerGroup = 4
    FirstDataBlock = 1
    BlocksCount = 9
    BlocksPerGroup = 4
    BlockUnits = 6
    DirectPointers = 2
    MaxFaults = 1
    MAX_SYMLINK_FOLLOW_DEPTH = 2
    InitTree <- MCTree
    InitDisks <- MCDisks
    LinkTarget <- MCLinkTarget
    Paths <- MCPaths
    CreatePaths <- MCCreatePaths
    MountPaths <- MCMountPaths
    ProcTree <- MCProcTree
    SysTree <- MCSysTree
    MaxCalls = 3
SPECIFICATION Spec
CHECK_DEADLOCK FALSE
INVARIANTS
    DiskIsSound
    CountersAreExact
    DirectoriesAreLinked
    TreeIsSound
    TreeIsTheDisks
    LookupsAgree
PROPERTY RenameMovesOrKeeps
