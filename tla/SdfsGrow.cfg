CONSTANTS
    SectorSize = 2
    MapEntries = 2
    LastSector = 10
    Slots = 3
    Names = {"A", "B", "C"}
    Inventory <- MCInventory
    Lengths = {1, 2, 3, 5}
    Kinds = {"replace"}
    MayGrow = TRUE
    HeadFirst = FALSE
    FaultKinds = {"pwrite"}
    MaxOps = 1
    MaxFaults = 0
SPECIFICATION SdfsSpec
INVARIANT Coherent
CHECK_DEADLOCK FALSE
