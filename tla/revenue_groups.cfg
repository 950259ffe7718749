CONSTANTS
    o1 = o1
    o2 = o2
    g1 = g1
    g2 = g2
    b1 = b1
    Bus <- OneBu
    BuOf <- SameBu
    Entries <- TwoNames
    Unknown = "sem cadastro"
    OrderIds <- TwoOrders
    Lines <- OneLine
    Groups <- TwoGroups
    Amounts <- Totals
    Window = 1
    MaxDay = 2
    MaxChanges = 3
    Deletes = TRUE
    Regroups = TRUE
SPECIFICATION FairSpec
CHECK_DEADLOCK FALSE
INVARIANTS TypeOK
PROPERTIES GroupsConverge NamesConverge ClosedDaysStay
