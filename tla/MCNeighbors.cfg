SPECIFICATION FairSpec
CONSTANTS
  Routers = {1, 2, 3}
  Legacy = {3}
  Prios = {0, 1}
  Running <- MCRunning
  Period = 2
  Hold = 7
  MaxStarts = 1
  MaxLosses = 1
  MaxJps = 1
  MaxQueue = 0
INVARIANTS  HeardIsKept NothingRefused
PROPERTY OneDr
CHECK_DEADLOCK FALSE
