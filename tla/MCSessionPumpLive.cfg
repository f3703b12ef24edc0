SPECIFICATION FairSpec
CONSTANTS
    c1 = c1
    c2 = c2
    u1 = u1
    Nobody = Nobody
    Calls <- OneCall
    Blind <- NoBlind
    Subs <- OneSub
    SubCap = 1
    MaxFrames = 2
PROPERTY NeverWedged
PROPERTY RemovalUnblocks
PROPERTY SlotsFreed
\* The session has ended and everyone has left.
CHECK_DEADLOCK FALSE
