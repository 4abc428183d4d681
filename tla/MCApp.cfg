CONSTANTS
    Jobs = {j1, j2}
    Ghost = Ghost
    Services = {v1, v2}
    HasGrpc = {v1}
    HasHttp = {v1}
    Obs = Obs
SPECIFICATION FairSpec
CHECK_DEADLOCK FALSE
INVARIANTS
    JobSendSafe
    StoppedOnReturn
    PanicOnlyAtStop
PROPERTIES
    ErrorNotLost
    RunEnds
