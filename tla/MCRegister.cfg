SPECIFICATION Spec
CONSTANTS
    Dr = "dr"
    Rps = {"a", "b"}
    Reg = "reg"
    Src = "src"
    Out = "out"
    Vifs = {"reg", "src", "out", "a", "b"}
    Any = "any"
    Scenarios <- MCScenarios
    MaxTtl = 3
    RsMin = 2
    RsMax = 3
    Probe = 1
    DataTimeout = 4
    MaxLosses = 1
    MaxChanges = 2
    MaxGap = 5
INVARIANTS  CopiedOnce 
