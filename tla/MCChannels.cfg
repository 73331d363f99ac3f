CONSTANTS
    StartNumber <- MCStartNumber
    MsgNumber <- MCMsgNumber
    Inquiries <- MCInquiries
    Capacity = 1
    u1 = u1
    u2 = u2
    c1 = c1
    c2 = c2
SPECIFICATION MCSpec
INVARIANTS
    OneControllerPerHeight
    CurrentIsStarted
    NobodyIsLeftOut
PROPERTIES
    LockIsReleased
    SendEnds
CHECK_DEADLOCK FALSE
