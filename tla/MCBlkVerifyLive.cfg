CONSTANTS
    Parts = {"live"}
    s = s
    v1 = v1
    v2 = v2
    x = x
    hA = hA
    hB = hB
    hC = hC
    hD = hD
    hS = hS
    NoLeader = NoLeader
    MinStockCount = 3
    FullSignThreshold = 7
    Self = s
    Role = "Validator"
    Accounts <- MCAccounts
    Hashes <- MCHashes
    Validators <- MCValidators
    Leaders <- MCValidators
    Turns <- MCTurns
    LeaderMsgs <- LiveMsgs
    Requests <- PosRequests
    LocalRequests <- None
    VoteMsgs <- LiveVotes
    RecoveryMsgs <- LiveRecovery
    BadHashes = {}
    MaxReqs = 1
    MaxSeq = 2
    MaxHandlers = 1
    OtherReqLimit = 1
SPECIFICATION MCFairSpec
PROPERTIES
    AcquisitionEnds
    QuorumFinishes
CHECK_DEADLOCK FALSE
