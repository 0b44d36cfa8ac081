CONSTANTS
    Turns = {k1, k2}
    MaxCells = 2
    MaxContinuations = 1
    Kinds = {"acp", "session"}
    Events = {"cancel"}
    MaxEvents = 1
    Faults = {}
SPECIFICATION Spec
INVARIANT AcceptedMessagesAreKept
CHECK_DEADLOCK FALSE
