CONSTANTS
    TotalBanks = 4
    SramBanks = 2
    NPatterns = 6
    Premap <- MCPremap
    Values = {0, 1}
    Zero = 0
    None = None
SPECIFICATION RecencySpec
INVARIANTS
    TypeOK
    NoAliasing
    ResidentsListed
    SelectedInSram
    LeastRecentlyUsedEvicted
PROPERTY ImplementsBankedMemory
