CONSTANTS
    Statuses = {"Unknown", "Healthy"}
    InitialStatus = "Unknown"
    None = None
    Watchers = {w1}
    Recovery = TRUE
SPECIFICATION FairSpec
PROPERTY ReportsConsumed
