SPECIFICATION MCSpec
CONSTANTS
    n1 = n1
    n2 = n2
    a = a
    b = b
    Nodes <- TwoNodes
    Periods = 3
    MaxKeys = 2
SYMMETRY Symmetry
INVARIANTS
    
    
    WrongOnlyAfterTimeout
    QuorumNoticed
    NoForgottenPeer
CHECK_DEADLOCK FALSE
