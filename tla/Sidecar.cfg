CONSTANTS
    Kinds = {Nop, Sio}
    Nop = Nop
    SeqMod = 16
    Starts = {5, 13}
    Tries = 2
    MaxCommands = 5
    MaxHostRestarts = 1
    MaxServiceRestarts = 2
    MaxFaults = 2
SPECIFICATION Spec
INVARIANTS
    TypeOK
    AtMostOnce
PROPERTIES
    OwnResponse
    NoDropAfterProbe
    UndisturbedIsAnswered
CONSTRAINT SessionsApart
CHECK_DEADLOCK FALSE
