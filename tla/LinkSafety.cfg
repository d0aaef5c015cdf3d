CONSTANTS
    SeqMod = 4
    LowMod = 8
    Starts = {1, 2}
    MaxWrites = 2
    MaxRestarts = 1
    MaxErrors = 1
    SyncLaps = 0
    Slack = 1
    Timed = {"g", "regionG", "lateE", "lateG", "armG"}
SPECIFICATION Spec
INVARIANTS
    TypeOK
    NewIsOneVersion
PROPERTIES
    NeverReturnedBefore
    NoFalseWindow
CHECK_DEADLOCK FALSE
CONSTRAINT OneFault
ACTION_CONSTRAINTS SessionsApart ErrorsThatCount
