CONSTANTS
    Checks = {k1, k2}
    Errs = {e1}
    None = None
    Main = Main
    Ticks = {t1, t2}
    panicOnError = TRUE
    FuncMayPanic = TRUE
SPECIFICATION FairSpec
CHECK_DEADLOCK FALSE
INVARIANTS
    OneCycle
    VerdictSound
PROPERTIES
    ImplementsReporter
    CycleEnds
    Quiesces
