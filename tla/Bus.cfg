CONSTANTS
    CartBanks = 2
    ExtBanks = 2
    Commands = {"disk", "screen", "open"}
    MaxStores = 3
    MaxRequests = 2
SPECIFICATION BusSpec
INVARIANTS
    BusTypeOK
    WindowsFollow
    DetachedDrivesNothing
CHECK_DEADLOCK FALSE
