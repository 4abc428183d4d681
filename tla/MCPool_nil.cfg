CONSTANTS
    Borrowers = {b1, b2}
    Conns = {c1}
    None = None
    MaxIdle = 1
    MaxActive = 1
    IdleTimeout = 1
    Wait = TRUE
    TestOnBorrow = FALSE
    DialMayFail = TRUE
    PutsNil = TRUE
    MaxTime = 0
SPECIFICATION FairSpec
CHECK_DEADLOCK FALSE
PROPERTY
    GetReturns
