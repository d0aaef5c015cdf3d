CONSTANTS
    SeqMod = 8
    LowMod = 16
    Starts = {6}
    MaxWrites = 2
    MaxRestarts = 0
    MaxErrors = 0
    SyncLaps = 0
    Slack = 1
    Timed = {}
SPECIFICATION Spec
INVARIANT NewIsOneVersion
CHECK_DEADLOCK FALSE
