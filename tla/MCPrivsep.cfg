SPECIFICATION FairSpec
CONSTANTS
    Parts = 3
    Cap = 4
    Ids = 4
    ScanSizes = {0, 1, 3}
    Limit = 2
INVARIANTS InStep OneRole 
PROPERTY NobodyWaits
CHECK_DEADLOCK FALSE
