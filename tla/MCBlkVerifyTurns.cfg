CONSTANTS
    Parts = {"turns", "votes", "broadcast"}
    s = s
    v1 = v1
    v2 = v2
    x = x
    hA = hA
    hB = hB
    hC = hC
    hD = hD
    hS = hS
    NoLeader = NoLeader
    MinStockCount = 3
    FullSignThreshold = 7
    Self = s
    Role = "Validator"
    Accounts <- MCAccounts
    Hashes <- MCHashes
    Validators <- MCValidators
    Leaders <- MCValidators
    Turns <- MCTurns
    LeaderMsgs <- TurnMsgs
    Requests <- TurnRequests
    LocalRequests <- OwnRequests
    VoteMsgs <- None
    RecoveryMsgs <- None
    BadHashes = {hD}
    MaxReqs = 3
    MaxSeq = 2
    MaxHandlers = 1
    OtherReqLimit = 1
SPECIFICATION MCSpec
INVARIANTS
    TurnsNeverGoBack
    OneVotePerTurn
    BroadcastTakesPosed
    MiningMatchesEnd
    NoMissedQuorum
PROPERTIES
    OwnResultOnly
    ImplementsVoting
CHECK_DEADLOCK FALSE
