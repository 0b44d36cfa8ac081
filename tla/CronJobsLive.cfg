CONSTANTS
    MaxOccurrence = 2
    Ticks = {t1, t2}
    MaxRetries = 1
    JobKinds = {"at", "every"}
    Settings = {{"shared"}}
    Events = {"crash"}
    MaxEvents = 1
    Requests = {}
    Faults = {"busy", "fail", "suspend"}
SPECIFICATION FairSpec
PROPERTIES ClaimedRunsEnd
CHECK_DEADLOCK FALSE
