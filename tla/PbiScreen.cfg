CONSTANTS
    MaxCopy = 4
    ScreenSizes = {4, 5}
    Size <- MCSize
    MaxRequests = 3
    MaxTicks = 2
    ScreenKnown = {FALSE, TRUE}
SPECIFICATION Spec
INVARIANT CopyInBounds
CHECK_DEADLOCK FALSE
