CONSTANTS
    Borrowers = {b1, b2, b3, b4}
    Conns = {c1, c2, c3, c4}
    None = None
    MaxIdle = 2
    MaxActive = 3
    IdleTimeout = 1
    Wait = TRUE
    TestOnBorrow = TRUE
    DialMayFail = TRUE
    PutsNil = TRUE
    MaxTime = 3
SPECIFICATION Spec
SYMMETRY Symm
CHECK_DEADLOCK FALSE
INVARIANTS
    Accounting
    ConnLimit
    SendSafe
    SoleOwner
    IdleListOK
PROPERTY ImplementsLease
