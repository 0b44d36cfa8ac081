CONSTANTS
    MaxPrompts = 2
    MaxWire = 2
    Faults = {"crash"}
    Cancels = FALSE
SPECIFICATION Spec
INVARIANT CrashesAreReported
CHECK_DEADLOCK FALSE
