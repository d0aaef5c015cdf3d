CONSTANTS
    Paths <- MCPaths
    Modes = {"read", "write"}
    CacheSize = 2
    Handles = {1, 2, 3}
    NoHandle = 0
    DataSize = 2
    DataSectors = {4, 5, 6, 7, 8}
    Slots = 3
    HostDir <- MCHostDir
    LastAlias = 2
    Names <- MCNames
    Lengths = {2, 5}
    Kinds = {"create", "append", "replace", "erase", "rename", "update"}
    MayShareHost = FALSE
    MaxOps = 3
    MaxFaults = 1
SPECIFICATION DosSpec
INVARIANTS
    DosCoherent
    DosReadBack
    SectorsAccounted
    HandlesInOrder
CHECK_DEADLOCK FALSE
