SPECIFICATION MCSpec
CONSTANTS
    a1 = a1
    Nobody = Nobody
    NoRow = NoRow
    MaxTokens = 2
    Addrs <- OneAddr
    enrolTokenTTL = 1
    sessionTTL = 1
    loginMaxFailures = 2
    loginWindow = 1
    loginLockout = 2
    Width = 2
    MaxClock = 2
    MaxEvents = 4
INVARIANT TypeOK
INVARIANT ClaimSticks
INVARIANT Throttled
INVARIANT AdminStaysPrivate
INVARIANT AdminReachable
PROPERTY DeadStaysDead
\* Events and ticks are used up.
CHECK_DEADLOCK FALSE
