CONSTANTS
    Procs <- MCProcs
    ServiceCount = 2
    InstanceCount = 2
    StepCount = 2
    TimeCount = 4
    maxReservedId = 2
    Encrypt <- MCEncrypt
    MaxClock = 2
    ClockBack <- MCClockBack
    Restarting <- MCRestarting
    RestartEarly = FALSE
    MaxRestarts = 1
SPECIFICATION Spec
INVARIANTS
    Unique
    FieldsFit
