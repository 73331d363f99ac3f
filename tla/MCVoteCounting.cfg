CONSTANTS
    v1 = v1
    v2 = v2
    v3 = v3
    v4 = v4
    x = x
    a1 = a1
    a2 = a2
    h1 = h1
    h2 = h2
    h3 = h3
    NoAccount = NoAccount
    Validators <- Four
    Headers <- ThreeHeaders
    MinStockCount = 3
    FullSignThreshold = 3
    MaxRestarts = 1
    MaxSigns = 4
    TimeoutInterval = 1
    CountLimit = 2
    MaxTime = 4
    MaxIndex = 4
SPECIFICATION MCSpec
SYMMETRY Symmetry
INVARIANTS
    AgreementUnlessRestarted
    AcceptsExactlyQuorums
    ResultIgnoresOrder
PROPERTIES
    ImplementsVoteStore
CHECK_DEADLOCK FALSE
