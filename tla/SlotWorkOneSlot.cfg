CONSTANTS
    s1 = s1
    w1 = w1
    w2 = w2
    w3 = w3
    m1 = m1
    r1 = r1
    Slots = {s1}
    Works = {w1, w2, w3}
    Messages = {m1}
    Runs = {r1}
    NoSlot = NoSlot
    NoMessage = NoMessage
    NoRun = NoRun
    MaxOps = 2
    Sources = {"UserMessage", "UserCommand"}
    RuntimeStates = {"starting", "ready", "failed", "removing", "stopped"}
SPECIFICATION Spec
SYMMETRY WorkSymmetry
INVARIANTS
    ListedOnce
    CommandsRunAlone
    MessagesKeepTheirOrder
PROPERTIES
    CancelRunIsExact
CHECK_DEADLOCK FALSE
