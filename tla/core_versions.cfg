CONSTANTS
    k1 = k1
    k2 = k2
    w1 = w1
    w2 = w2
    Keys <- SomeKeys
    Ops <- WriteOrDel
    Parts <- TwoMonths
    Writers <- TwoWriters
    MaxSeq = 3
    MaxGen = 1
    MaxBatch = 2
    MaxInserts = 2
    MaxFails = 1
    MaxRebuilds = 0
    LandingExpires = TRUE
SPECIFICATION Spec
SYMMETRY Symmetry
CHECK_DEADLOCK FALSE
INVARIANTS TypeOK CurrentIsLatest
PROPERTIES VersionsNeverRegress RefinesCurrentState
