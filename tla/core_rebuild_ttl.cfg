CONSTANTS
    k1 = k1
    k2 = k2
    w1 = w1
    w2 = w2
    Keys <- OneKey
    Ops <- WriteOrDel
    Parts <- OneMonth
    Writers <- OneWriter
    MaxSeq = 2
    MaxGen = 1
    MaxBatch = 2
    MaxInserts = 2
    MaxFails = 0
    MaxRebuilds = 1
    LandingExpires = TRUE
SPECIFICATION FairSpec
CHECK_DEADLOCK FALSE
PROPERTIES RebuildRestores
