CONSTANTS
    Callers = {1, 2}
    MaxSessions = 2
    MaxOps = 4
    Calls = {"deliver", "add", "ensure", "retry", "remove", "stop", "idle"}
    Faults = {"config", "build", "die", "lead", "write", "enqueue", "load", "persist"}
SPECIFICATION Spec
INVARIANTS
    RuntimeTypeOK
    EntriesAreOwned
    PendingAnswersAreOwed
    AbsentHasNoLoop
    QueuedWorkHasAWakeUp
PROPERTY AnswersAreFinal
CHECK_DEADLOCK FALSE
