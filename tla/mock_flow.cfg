CONSTANTS
    Bases <- ThreeBases
    MonthStart <- Month
    Window = 3
    MaxTries = 1
    Stops <- BeforeMvs
    Breaks <- HalfLoads
    Loads <- Days
    Cuts <- OneCut
    MaxDay = 1
    MaxCalls = 3
SPECIFICATION FairSpec
CHECK_DEADLOCK FALSE
INVARIANTS TypeOK MatrixOfL1 PricesAsOf WaitedMatrix
PROPERTIES MatrixComes
