CONSTANTS
    TotalBanks = 3
    SramBanks = 1
    NPatterns = 4
    Premap <- MCRambo
    Values = {0, 1}
    Zero = 0
    None = None
    WaitCycles = 2
    ResumeCycles = 4
    MaxQueue = 3
    MaxStores = 5
    Patience = {TRUE, FALSE}
SPECIFICATION SwitchSpec
INVARIANTS
    SwitchTypeOK
    PatientWindowIsSelectedBank
PROPERTIES
    OnlySelectedBankWritten
    HaltEnds
CHECK_DEADLOCK FALSE
