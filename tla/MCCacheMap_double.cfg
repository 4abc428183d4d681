CONSTANTS
    Keys = {k1}
    Readers = {r1, r2}
    Loaders = {l1, l2}
    Items = {i1, i2, i3}
    None = None
    expiration = 2
    Options <- NoBatch
    retryInterval = 3
    waitTimeout = 1
    evictTimeout = 3
    GetKeys = {k1}
    ManyKeys = {k1}
    Evicts = FALSE
    MaxLoad = 1
    MaxClock = 6
SPECIFICATION Spec
SYMMETRY Symm
CHECK_DEADLOCK FALSE
INVARIANT SingleLoad
