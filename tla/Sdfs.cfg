CONSTANTS
    SectorSize = 2
    MapEntries = 2
    LastSector = 10
    Slots = 3
    Names = {"A", "B", "C"}
    Inventory <- MCInventory
    Lengths = {1, 2, 3, 5}
    Kinds = {"create", "append", "replace", "erase", "rename", "update"}
    MayGrow = FALSE
    HeadFirst = FALSE
    FaultKinds = {"pread", "pwrite", "truncate"}
    MaxOps = 3
    MaxFaults = 1
SPECIFICATION SdfsSpec
INVARIANTS
    Coherent
    WholeFiles
    OneOwner
    ReadBack
PROPERTIES
    RefusedByStorageOnly
    RefusedLeavesHost
CHECK_DEADLOCK FALSE
