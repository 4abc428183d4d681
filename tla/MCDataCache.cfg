CONSTANTS
    Readers = {r1, r2, r3}
    Loaders = {l1, l2, l3}
    None = None
    expiration = 2
    retryInterval = 2
    waitTimeout = 2
    ErrExpirations = {0, 2}
    MaxLoad = 3
    Prompt = TRUE
    MaxClock = 7
SPECIFICATION Spec
SYMMETRY Symm
CHECK_DEADLOCK FALSE
INVARIANTS
    SingleLoad
    WaitsForFirst
PROPERTY DataGrows
