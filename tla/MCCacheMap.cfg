CONSTANTS
    Keys = {k1, k2}
    Readers = {r1, r2}
    Loaders = {l1, l2, l3}
    Items = {i1, i2}
    None = None
    expiration = 1
    Options <- BothOptions
    retryInterval = 1
    waitTimeout = 0
    evictTimeout = 2
    GetKeys = {k1}
    ManyKeys = {k2}
    Evicts = TRUE
    MaxLoad = 2
    MaxClock = 4
SPECIFICATION Spec
SYMMETRY Symm
CHECK_DEADLOCK FALSE
INVARIANTS
    SingleLoad
PROPERTIES
    OneItem
    ItemDataGrows
