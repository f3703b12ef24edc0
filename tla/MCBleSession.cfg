SPECIFICATION Spec
CONSTANTS
    o1 = o1
    o2 = o2
    t1 = t1
    t2 = t2
    NoOne = NoOne
    Pairing = Pairing
    Opens <- TwoOpens
    Tokens <- TwoTokens
    MayPair = TRUE
SYMMETRY Symmetry
INVARIANT TypeOK
INVARIANT RadioAccounted
INVARIANT OneLink
INVARIANT NewestFindsNoSession
INVARIANT SweptOpensStayOut
