SPECIFICATION Spec
CONSTANTS
    c1 = c1
    c2 = c2
    u1 = u1
    Nobody = Nobody
    Calls <- TwoCalls
    Blind <- NoBlind
    Subs <- OneSub
    SubCap = 1
    MaxFrames = 1
INVARIANT ReaperSparesConversation
\* The session has ended and everyone has left.
CHECK_DEADLOCK FALSE
