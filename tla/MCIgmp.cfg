SPECIFICATION FairSpec
CONSTANTS
    Asm = {a}
    Ssm = {s}
    Accepted = {a, s}
    Sources = {x, y}
    MaxSources = 2
    Me = 5
    Routers = {0, 3, 7}
    V2Mode = TRUE
    Gmi = 3
    Lmqi = 1
    LeaveTime = 2
    AskTime = 2
    QuerierTimeout = 2
    MaxMsgs = 4
INVARIANTS NothingImmortal LeavesAreMemberships V1MemberIsKept
PROPERTY SilenceEmptiesTheList
