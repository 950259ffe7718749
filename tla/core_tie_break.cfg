CONSTANTS
    k1 = k1
    k2 = k2
    w1 = w1
    w2 = w2
    Keys <- OneKey
    Ops <- WriteOrDel
    Parts <- OneMonth
    Writers <- TwoWriters
    MaxSeq = 1
    MaxGen = 2
    MaxBatch = 1
    MaxInserts = 2
    MaxFails = 1
    MaxRebuilds = 0
    LandingExpires = FALSE
SPECIFICATION Spec
CHECK_DEADLOCK FALSE
INVARIANTS TieBreakByKafkaTs
