CONSTANTS
    s1 = s1
    w1 = w1
    w2 = w2
    d1 = d1
    r1 = r1
    r2 = r2
    Slots = {s1}
    Works = {w1, w2, d1}
    Messages = {w1, w2}
    Producers = {w1, w2}
    Runs = {r1, r2}
    NoSlot = NoSlot
    NoMessage = NoMessage
    NoRun = NoRun
    MaxOps = 3
    Sources = {"UserMessage", "IdleNotification"}
    Faults = {"write", "peek", "prepare", "transport", "read", "skip", "start"}
SPECIFICATION Spec
INVARIANTS
    ActiveBatchIsBeingExecuted
    SessionTypeOK
    OneTurnPerRow
    CancelledOnRequest
PROPERTIES ImplementsSerialWork
SYMMETRY TeamSymmetry
CHECK_DEADLOCK FALSE
