CONSTANTS
    SeqMod = 8
    LowMod = 16
    Starts = {1}
    MaxWrites = 2
    MaxRestarts = 0
    MaxErrors = 1
    SyncLaps = 0
    Slack = 1
    Timed = {"loop", "e", "g", "regionG", "lateE", "lateG", "tWindow", "tLate", "rearm", "copy", "guard", "consume", "check", "armE", "armG", "again"}
SPECIFICATION Spec
PROPERTY EveryNewIsNewer
CHECK_DEADLOCK FALSE
