CONSTANTS
    MaxPrompts = 2
    MaxWire = 2
    Faults = {"fail", "crash", "exit", "hang", "wake"}
    Cancels = TRUE
SPECIFICATION FairSpec
INVARIANTS SessionAgentTypeOK EndsAreOwn ToolRowsAreClosed BusyAgentsAreNotIdle
PROPERTY PromptsEnd
CHECK_DEADLOCK FALSE
