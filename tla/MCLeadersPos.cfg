CONSTANTS
    MinStockCount = 3
    FullSignThreshold = 3
    N = 3
    MaxTurn = 2
    MaxSends = 3
    PosTurns = {}
    Bc = Bc
    MaxLate = 1
    MaxTime = 5
    v1 = v1
    v2 = v2
    v3 = v3
    v4 = v4
    v5 = v5
    MaxNumber = 10
SPECIFICATION MCSpec
INVARIANT MiningHasPos
CHECK_DEADLOCK FALSE
