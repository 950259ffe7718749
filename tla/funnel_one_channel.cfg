CONSTANTS
    p1 = p1
    p2 = p2
    o1 = o1
    o2 = o2
    m1 = m1
    u1 = u1
    b1 = b1
    web = web
    app = app
    PayIds <- TwoPayments
    OrderIds <- TwoOrders
    Methods <- OneMethod
    Units <- OneUnit
    Bus <- OneBu
    BuOf <- SameBu
    Entries <- OneEntry
    Unknown = "sem cadastro"
    Channels <- OneChannel
    Statuses <- PendingOrCaptured
    Window = 1
    MaxDay = 2
    MaxChanges = 5
SPECIFICATION FairSpec
CHECK_DEADLOCK FALSE
INVARIANTS TypeOK NoDoubleCounting
PROPERTIES AttemptsClose RetriesKept RetriesClose
