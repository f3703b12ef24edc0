SPECIFICATION Spec
CONSTANTS
    o1 = o1
    o2 = o2
    t1 = t1
    t2 = t2
    NoOne = NoOne
    Pairing = Pairing
    Opens <- TwoOpens
    Tokens <- OneToken
    MayPair = FALSE
INVARIANT RemovedTokenHasNoSession
\* Every request has been served: the service is at rest.
CHECK_DEADLOCK FALSE
