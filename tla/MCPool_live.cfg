CONSTANTS
    Borrowers = {b1, b2, b3}
    Conns = {c1, c2}
    None = None
    MaxIdle = 1
    MaxActive = 2
    IdleTimeout = 1
    Wait = TRUE
    TestOnBorrow = FALSE
    DialMayFail = TRUE
    PutsNil = FALSE
    MaxTime = 2
SPECIFICATION FairSpec
PROPERTIES
    GetReturns
    ImplementsFairLease
