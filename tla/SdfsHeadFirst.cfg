CONSTANTS
    SectorSize = 2
    MapEntries = 2
    LastSector = 8
    Slots = 1
    Names = {"A"}
    Inventory <- MCLongFile
    Lengths = {5}
    Kinds = {"replace"}
    MayGrow = FALSE
    HeadFirst = TRUE
    FaultKinds = {"pwrite"}
    MaxOps = 1
    MaxFaults = 0
SPECIFICATION SdfsSpec
PROPERTY RefusedByStorageOnly
CHECK_DEADLOCK FALSE
