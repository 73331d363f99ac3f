SPECIFICATION MCSpec
CONSTANTS
    lead = lead
    val = val
    t1 = t1
    t2 = t2
    t3 = t3
    owner = owner
    sender = sender
    Nodes <- Pair
    Leader = lead
    Txs <- Both
    Arrivals <- AtLeader
    Bad <- None
    Ageing <- None
    MaxHeight = 1
    MaxHeaders = 1
    MaxObjects = 1
    Restarting <- None
SYMMETRY Symmetry
INVARIANTS
    AllAreListed
    
    
CHECK_DEADLOCK FALSE
