CONSTANTS
    p1 = p1
    p2 = p2
    o1 = o1
    o2 = o2
    m1 = m1
    u1 = u1
    b1 = b1
    web = web
    app = app
    PayIds <- TwoPayments
    OrderIds <- TwoOrders
    Methods <- OneMethod
    Units <- OneUnit
    Bus <- OneBu
    BuOf <- SameBu
    Entries <- OneEntry
    Unknown = "sem cadastro"
    Channels <- TwoChannels
    Statuses <- PendingOrCaptured
    Window = 1
    MaxDay = 0
    MaxChanges = 4
SPECIFICATION FairSpec
CHECK_DEADLOCK FALSE
PROPERTIES AttemptsClose
