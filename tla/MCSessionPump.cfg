SPECIFICATION Spec
CONSTANTS
    c1 = c1
    c2 = c2
    u1 = u1
    Nobody = Nobody
    Calls <- TwoCalls
    Blind <- OneBlind
    Subs <- OneSub
    SubCap = 1
    MaxFrames = 2
INVARIANT TypeOK
INVARIANT DeliveryNeverFails
INVARIANT RightReply
INVARIANT OneDestination
INVARIANT NobodyHangs
\* The session has ended and everyone has left.
CHECK_DEADLOCK FALSE
