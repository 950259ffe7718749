CONSTANTS
    Bases <- Noon
    MonthStart <- Month
    Window = 3
    MaxTries = 2
    Stops <- NoStops
    Breaks <- NoBreaks
    Loads <- NoonLoads
    Cuts <- NoCuts
    MaxDay = 0
    MaxCalls = 3
SPECIFICATION Spec
CHECK_DEADLOCK FALSE
INVARIANTS VerifiedMatrix
