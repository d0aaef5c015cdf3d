CONSTANTS
    MaxCopy = 4
    ScreenSizes = {4, 5}
    Size <- MCSize
    MaxRequests = 3
    MaxTicks = 2
    ScreenKnown = {FALSE, TRUE}
SPECIFICATION FairSpec
INVARIANTS
    TypeOK
    ParkedWhileHandled
    ScreenIsCopied
PROPERTIES
    RightData
    RequestEnds
    InterruptServed
CHECK_DEADLOCK FALSE
