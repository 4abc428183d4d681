CONSTANTS
    Statuses = {"Unknown", "Healthy"}
    InitialStatus = "Unknown"
    None = None
    Watchers = {w1, w2}
    Recovery = TRUE
SPECIFICATION FairSpec
INVARIANTS
    ListExact
    WatchersAgree
PROPERTY WatchersCatchUp
