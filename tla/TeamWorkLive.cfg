CONSTANTS
    s1 = s1
    w1 = w1
    w2 = w2
    d1 = d1
    d2 = d2
    r1 = r1
    Slots = {s1}
    Works = {w1, w2, d1, d2}
    Messages = {w1, w2}
    Producers = {w1, w2}
    Runs = {r1}
    NoSlot = NoSlot
    NoMessage = NoMessage
    NoRun = NoRun
    MaxOps = 4
    Sources = {"McpSendMessage"}
    Faults = {"start", "write"}
SPECIFICATION FairSpec
PROPERTY
    AcknowledgedWorkEnds
CHECK_DEADLOCK FALSE
