CONSTANTS
    MaxPrice = 3
    StopDrop = 1
    PartialRise = 1
    ProfitRise = 2
    TrailDrop = 2
    Whole = 2
    Foreign = FALSE
    BracketExits = TRUE
    MaxWorking = 2
    MaxShort = 1
    MaxBuys = 1
    MaxOutside = 1
SPECIFICATION FairSpec
INVARIANTS ExitsTypeOK Covered
PROPERTIES FloorIsWatched
