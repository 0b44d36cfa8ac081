CONSTANTS
    Turns = {k1, k2}
    MaxCells = 3
    MaxContinuations = 1
    Kinds = {"acp", "session"}
    Events = {"cancel", "delete", "revoke", "warm", "idle"}
    MaxEvents = 1
    Faults = {"insert", "options", "build", "prepare", "delete", "cancel"}
SPECIFICATION FairSpec
INVARIANTS ConversationTypeOK OneTurnAtATime NoStrayAgents
PROPERTIES CancelledTurnEnds TurnsOnlyWaitForTheirAgent
CHECK_DEADLOCK FALSE
