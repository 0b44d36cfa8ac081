CONSTANTS
    s1 = s1
    s2 = s2
    w1 = w1
    w2 = w2
    m1 = m1
    m2 = m2
    r1 = r1
    Slots = {s1, s2}
    Works = {w1, w2}
    Messages = {m1}
    Runs = {r1}
    NoSlot = NoSlot
    NoMessage = NoMessage
    NoRun = NoRun
    MaxOps = 2
    Sources = {"McpSendMessage", "IdleNotification"}
    RuntimeStates = {"ready", "failed"}
SPECIFICATION Spec
SYMMETRY WorkSymmetry
INVARIANTS
    TypeOK
    QueuedWorkIsInItsDeque
    ClaimedWorkIsInItsBatch
PROPERTIES
    EndedWorkStaysEnded
    ImplementsSerialWork
CHECK_DEADLOCK FALSE
