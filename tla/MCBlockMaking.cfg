CONSTANTS
    Miners = {m1}
    CountLimit = 1
    Self = 1
    Kinds = {"common"}
    MaxTurn = 1
    MaxHeaders = 1
    MaxNotices = 3
    MaxResults = 2
    MaxMessages = 8
SPECIFICATION MCSpec
INVARIANTS
    
    NoMissedInsert
    
    LastResultIsSent
CHECK_DEADLOCK FALSE
