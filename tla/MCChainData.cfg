SPECIFICATION MCSpec
CONSTANTS
    A = A
    B = B
    m = m
    x = x
    z = z
    p = p
    q = q
    b1 = b1
    b2 = b2
    none = none
    Hashes <- MCHashes
    Children <- MCChildren
    Roots <- MCRoots
    Genesis = A
    TriesInMemory = 2
    MaxNumber = 3
    MaxQueued = 2
SYMMETRY Symmetry
INVARIANTS
    OneImport
    
CHECK_DEADLOCK FALSE
