CONSTANTS
    Paths <- MCPaths
    Modes = {"read", "write"}
    CacheSize = 2
    Handles = {1, 2, 3}
    NoHandle = 0
    DataSize = 2
    DataSectors = {4, 5, 6, 7, 8, 9, 10, 11, 12}
    Slots = 6
    HostDir <- MCHostDir
    LastAlias = 2
    Names <- MCNamesShared
    Lengths = {2, 5}
    Kinds = {"create"}
    MayShareHost = TRUE
    MaxOps = 2
    MaxFaults = 0
SPECIFICATION DosSpec
INVARIANTS
    DosCoherent
CHECK_DEADLOCK FALSE
