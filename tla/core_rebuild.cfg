CONSTANTS
    k1 = k1
    k2 = k2
    w1 = w1
    w2 = w2
    Keys <- OneKey
    Ops <- WriteOrDel
    Parts <- TwoMonths
    Writers <- TwoWriters
    MaxSeq = 2
    MaxGen = 2
    MaxBatch = 1
    MaxInserts = 2
    MaxFails = 1
    MaxRebuilds = 1
    LandingExpires = FALSE
SPECIFICATION FairSpec
CHECK_DEADLOCK FALSE
INVARIANTS LandingReflected
PROPERTIES MergeInvisible Converges RebuildRestores
