SPECIFICATION Spec
CONSTANTS
    Asm = {}
    Ssm = {s}
    Accepted = {s}
    Sources = {x, y}
    MaxSources = 2
    Me = 5
    Routers = {}
    V2Mode = TRUE
    Gmi = 3
    Lmqi = 1
    LeaveTime = 2
    AskTime = 2
    QuerierTimeout = 2
    MaxMsgs = 4
INVARIANT HeldUntilBlockedOrTimedOut
