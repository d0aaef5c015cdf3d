CONSTANTS
    SeqMod = 8
    LowMod = 16
    Starts = {6}
    MaxWrites = 2
    MaxRestarts = 0
    MaxErrors = 0
    SyncLaps = 2
    Slack = 1
    Timed = {"loop", "e", "g", "regionG", "lateE", "lateG", "tWindow", "tLate", "rearm", "copy", "guard", "consume", "check", "armE", "armG", "again"}
SPECIFICATION FairSpec
PROPERTIES
    HintNeverStrands
    QuietVersionRead
CHECK_DEADLOCK FALSE
