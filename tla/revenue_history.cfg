CONSTANTS
    o1 = o1
    o2 = o2
    g1 = g1
    g2 = g2
    b1 = b1
    Bus <- OneBu
    BuOf <- SameBu
    Entries <- TwoNames
    Unknown = "sem cadastro"
    OrderIds <- OneOrder
    Lines <- OneLine
    Groups <- OneGroup
    Amounts <- Totals
    Window = 1
    MaxDay = 2
    MaxChanges = 4
    Deletes = FALSE
    Regroups = FALSE
SPECIFICATION FairSpec
CHECK_DEADLOCK FALSE
PROPERTIES HistoryCriteria
